---- MODULE Spec2Model ----
(***************************************************************************)
(* Model of the MLAS rule-evaluation engine of webwaka-suites              *)
(* (implementations/sc2-mlas-suite): AbuseDetectionService,                *)
(* RevenueSharingService (calculateRevenue and the store of                *)
(* configurations), AttributionService (trackAttribution and               *)
(* getAttributionHistory) and PricingService (calculatePrice and           *)
(* calculateDynamicPrice).                                                 *)
(*                                                                         *)
(* Decimal values are decimal.js values: a sign, a coefficient of decimal  *)
(* digits and an exponent.  plus, times and dividedBy round their result   *)
(* to PRECISION significant digits, half away from zero, as decimal.js     *)
(* does under its default configuration; the constructor and the           *)
(* comparisons are exact.                                                  *)
(***************************************************************************)
EXTENDS Integers, Sequences, FiniteSets, TLC

(***************************************************************************)
(* Natural numbers of any size: sequences of decimal digits, least         *)
(* significant digit first, without leading zeros (zero is << >>).          *)
(***************************************************************************)
RECURSIVE StripHigh(_)
StripHigh(s) ==
  IF s = << >> THEN << >>
  ELSE IF s[Len(s)] = 0 THEN StripHigh(SubSeq(s, 1, Len(s) - 1))
  ELSE s

RECURSIVE NatFromInt(_)
NatFromInt(n) ==
  IF n = 0 THEN << >> ELSE << n % 10 >> \o NatFromInt(n \div 10)

RECURSIVE AddDigits(_, _, _)
AddDigits(a, b, carry) ==
  IF a = << >> /\ b = << >>
  THEN (IF carry = 0 THEN << >> ELSE << carry >>)
  ELSE LET x == IF a = << >> THEN 0 ELSE Head(a)
           y == IF b = << >> THEN 0 ELSE Head(b)
           ta == IF a = << >> THEN << >> ELSE Tail(a)
           tb == IF b = << >> THEN << >> ELSE Tail(b)
           t == x + y + carry
       IN  << t % 10 >> \o AddDigits(ta, tb, t \div 10)

NatAdd(a, b) == StripHigh(AddDigits(a, b, 0))

\* a - b for a >= b
RECURSIVE SubDigits(_, _, _)
SubDigits(a, b, borrow) ==
  IF a = << >> THEN << >>
  ELSE LET y == IF b = << >> THEN 0 ELSE Head(b)
           tb == IF b = << >> THEN << >> ELSE Tail(b)
           t == Head(a) - y - borrow
       IN  IF t < 0 THEN << t + 10 >> \o SubDigits(Tail(a), tb, 1)
           ELSE << t >> \o SubDigits(Tail(a), tb, 0)

NatSub(a, b) == StripHigh(SubDigits(a, b, 0))

\* -1, 0 or 1 as a < b, a = b, a > b
RECURSIVE CmpFromTop(_, _, _)
CmpFromTop(a, b, i) ==
  IF i = 0 THEN 0
  ELSE IF a[i] < b[i] THEN -1
  ELSE IF a[i] > b[i] THEN 1
  ELSE CmpFromTop(a, b, i - 1)

NatCmp(a, b) ==
  IF Len(a) < Len(b) THEN -1
  ELSE IF Len(a) > Len(b) THEN 1
  ELSE CmpFromTop(a, b, Len(a))

RECURSIVE MulDigit(_, _, _)
MulDigit(a, d, carry) ==
  IF a = << >> THEN (IF carry = 0 THEN << >> ELSE << carry >>)
  ELSE LET t == Head(a) * d + carry
       IN  << t % 10 >> \o MulDigit(Tail(a), d, t \div 10)

RECURSIVE NatMul(_, _)
NatMul(a, b) ==
  IF a = << >> \/ b = << >> THEN << >>
  ELSE NatAdd(StripHigh(MulDigit(a, Head(b), 0)),
              IF Tail(b) = << >> THEN << >> ELSE << 0 >> \o NatMul(a, Tail(b)))

RECURSIVE Zeros(_)
Zeros(k) == IF k <= 0 THEN << >> ELSE << 0 >> \o Zeros(k - 1)

\* number of zero digits at the low end of a non-zero natural
RECURSIVE LowZeros(_)
LowZeros(s) ==
  IF s = << >> \/ Head(s) # 0 THEN 0 ELSE 1 + LowZeros(Tail(s))

(***************************************************************************)
(* decimal.js values                                                       *)
(***************************************************************************)
PRECISION == 20

\* canonical form: no zero digit at either end of the coefficient
DecNorm(neg, c, e) ==
  LET s == StripHigh(c)
      k == LowZeros(s)
  IN  IF s = << >> THEN [neg |-> FALSE, c |-> << >>, e |-> 0]
      ELSE [neg |-> neg, c |-> SubSeq(s, k + 1, Len(s)), e |-> e + k]

\* new Decimal(n * 10^e) for an integer n: exact, never rounded
DE(n, e) == DecNorm(n < 0, NatFromInt(IF n < 0 THEN -n ELSE n), e)
D(n) == DE(n, 0)

\* new Decimal of a literal given by its digits, most significant first
DecFromDigits(digits, e) ==
  DecNorm(FALSE, [i \in 1..Len(digits) |-> digits[Len(digits) + 1 - i]], e)

SigDigits(x) == Len(x.c)

\* finalise(x, precision, ROUND_HALF_UP)
DecRoundTo(x, p) ==
  IF Len(x.c) <= p THEN x
  ELSE LET k == Len(x.c) - p
           kept == SubSeq(x.c, k + 1, Len(x.c))
           up == x.c[k] >= 5
       IN  DecNorm(x.neg, IF up THEN NatAdd(kept, << 1 >>) ELSE kept, x.e + k)

DecRound(x) == DecRoundTo(x, PRECISION)

\* the coefficient of x at exponent e <= x.e
CoeffAt(x, e) == IF x.c = << >> THEN << >> ELSE Zeros(x.e - e) \o x.c

MinInt(a, b) == IF a < b THEN a ELSE b

\* the exact product, sum and quotient by 100 (no rounding)
ExactTimes(x, y) == DecNorm(x.neg # y.neg, NatMul(x.c, y.c), x.e + y.e)

ExactPlus(x, y) ==
  LET e == MinInt(x.e, y.e)
      a == CoeffAt(x, e)
      b == CoeffAt(y, e)
  IN  IF x.neg = y.neg THEN DecNorm(x.neg, NatAdd(a, b), e)
      ELSE IF NatCmp(a, b) >= 0 THEN DecNorm(x.neg, NatSub(a, b), e)
      ELSE DecNorm(y.neg, NatSub(b, a), e)

ExactDiv100(x) == DecNorm(x.neg, x.c, x.e - 2)

\* Decimal.prototype.cmp
DecCmp(x, y) ==
  LET e == MinInt(x.e, y.e)
      m == NatCmp(CoeffAt(x, e), CoeffAt(y, e))
  IN  IF x.neg # y.neg THEN (IF x.neg THEN -1 ELSE 1)
      ELSE IF x.neg THEN -m ELSE m

greaterThan(x, y) == DecCmp(x, y) > 0
lessThan(x, y) == DecCmp(x, y) < 0
greaterThanOrEqualTo(x, y) == DecCmp(x, y) >= 0

\* Decimal.prototype.times, plus, dividedBy(100)
times(x, y) == DecRound(ExactTimes(x, y))
plus(x, y) == DecRound(ExactPlus(x, y))
dividedBy100(x) == DecRound(ExactDiv100(x))

\* long division of the natural c by the integer n > 0, from digit i down:
\* the digits of the quotient, the remainder dropped
RECURSIVE DivDigits(_, _, _, _)
DivDigits(c, n, i, rem) ==
  IF i = 0 THEN << >>
  ELSE LET t == rem * 10 + c[i]
       IN  DivDigits(c, n, i - 1, t % n) \o << t \div n >>

\* the quotient of x by the integer n > 0, cut after more than PRECISION
\* significant digits
TruncatedQuotient(x, n) ==
  LET c == Zeros(PRECISION + 2) \o x.c
  IN  DecNorm(x.neg, DivDigits(c, n, Len(c), 0), x.e - (PRECISION + 2))

\* Decimal.prototype.dividedBy(n) for a number n that is a positive integer
dividedBy(x, n) == DecRound(TruncatedQuotient(x, n))

\* the exact difference and the absolute value
ExactMinus(x, y) == ExactPlus(x, [y EXCEPT !.neg = (y.c # << >>) /\ ~y.neg])
DecAbs(x) == [x EXCEPT !.neg = FALSE]

(***************************************************************************)
(* JavaScript values held by a context (Record<string, unknown>) and by    *)
(* the threshold / value of a condition.  Strings are sequences of         *)
(* one-character strings; numbers are integers; an array holds scalars.    *)
(***************************************************************************)
Undef == [t |-> "undef", n |-> 0, s |-> << >>, a |-> << >>]
Num(k) == [t |-> "num", n |-> k, s |-> << >>, a |-> << >>]
Str(chars) == [t |-> "str", n |-> 0, s |-> chars, a |-> << >>]
Bool(b) == [t |-> "bool", n |-> IF b THEN 1 ELSE 0, s |-> << >>, a |-> << >>]
Arr(items) == [t |-> "arr", n |-> 0, s |-> << >>, a |-> items]

DigitChars == << "0", "1", "2", "3", "4", "5", "6", "7", "8", "9" >>

RECURSIVE NatToChars(_)
NatToChars(n) ==
  IF n < 10 THEN << DigitChars[n + 1] >>
  ELSE NatToChars(n \div 10) \o << DigitChars[(n % 10) + 1] >>

RECURSIVE JoinComma(_)

\* String(v)
ToStr(v) ==
  CASE v.t = "undef" -> << "u", "n", "d", "e", "f", "i", "n", "e", "d" >>
    [] v.t = "num" -> IF v.n < 0 THEN << "-" >> \o NatToChars(-v.n) ELSE NatToChars(v.n)
    [] v.t = "str" -> v.s
    [] v.t = "bool" -> IF v.n = 1 THEN << "t", "r", "u", "e" >>
                       ELSE << "f", "a", "l", "s", "e" >>
    [] OTHER -> JoinComma(v.a)

\* Array.prototype.join: an undefined element contributes the empty string
JoinComma(items) ==
  IF items = << >> THEN << >>
  ELSE LET h == IF Head(items).t = "undef" THEN << >> ELSE ToStr(Head(items))
       IN  IF Tail(items) = << >> THEN h ELSE h \o << "," >> \o JoinComma(Tail(items))

DigitOf(ch) == CHOOSE d \in 0..9 : DigitChars[d + 1] = ch
IsDigit(ch) == \E d \in 0..9 : DigitChars[d + 1] = ch
AllDigits(chars) == chars # << >> /\ \A i \in 1..Len(chars) : IsDigit(chars[i])

RECURSIVE CharsToNat(_, _)
CharsToNat(chars, acc) ==
  IF chars = << >> THEN acc
  ELSE CharsToNat(Tail(chars), acc * 10 + DigitOf(Head(chars)))

NaN == [nan |-> TRUE, n |-> 0]
Finite(k) == [nan |-> FALSE, n |-> k]

\* StringToNumber on the strings of the model: the empty string is 0, an
\* optionally signed run of digits is its value, anything else is NaN
StrToNumber(chars) ==
  IF chars = << >> THEN Finite(0)
  ELSE IF AllDigits(chars) THEN Finite(CharsToNat(chars, 0))
  ELSE IF Head(chars) = "-" /\ AllDigits(Tail(chars)) THEN Finite(-CharsToNat(Tail(chars), 0))
  ELSE IF Head(chars) = "+" /\ AllDigits(Tail(chars)) THEN Finite(CharsToNat(Tail(chars), 0))
  ELSE NaN

\* Number(v)
ToNumber(v) ==
  CASE v.t = "undef" -> NaN
    [] v.t = "num" -> Finite(v.n)
    [] v.t = "bool" -> Finite(v.n)
    [] v.t = "str" -> StrToNumber(v.s)
    [] OTHER -> StrToNumber(ToStr(v))

NumGt(x, y) == ~x.nan /\ ~y.nan /\ x.n > y.n
NumGte(x, y) == ~x.nan /\ ~y.nan /\ x.n >= y.n
NumLt(x, y) == ~x.nan /\ ~y.nan /\ x.n < y.n
NumLte(x, y) == ~x.nan /\ ~y.nan /\ x.n <= y.n

\* x === y; two arrays are two objects
StrictEq(x, y) ==
  /\ x.t = y.t
  /\ CASE x.t = "undef" -> TRUE
       [] x.t = "num" -> x.n = y.n
       [] x.t = "bool" -> x.n = y.n
       [] x.t = "str" -> x.s = y.s
       [] OTHER -> FALSE

\* Array.isArray(arr) && arr.includes(x)
ArrayIncludes(arr, x) ==
  arr.t = "arr" /\ \E i \in 1..Len(arr.a) : StrictEq(arr.a[i], x)

\* String.prototype.includes
StrIncludes(hay, needle) ==
  \E i \in 0..(Len(hay) - Len(needle)) : SubSeq(hay, i + 1, i + Len(needle)) = needle

\* truthiness of a value
Truthy(v) ==
  CASE v.t = "undef" -> FALSE
    [] v.t = "num" -> v.n # 0
    [] v.t = "bool" -> v.n = 1
    [] v.t = "str" -> v.s # << >>
    [] OTHER -> TRUE

(***************************************************************************)
(* Contexts: total maps from the keys of the model to values, an absent    *)
(* key reading as undefined.                                               *)
(***************************************************************************)
Keys == {"tenantId", "saleId", "clickRate", "selfReferrals", "category",
         "performanceScore", "productId", "quantity", "isVIP"}

EmptyCtx == [k \in Keys |-> Undef]

\* context[key]
Lookup(ctx, key) == IF key \in DOMAIN ctx THEN ctx[key] ELSE Undef

(***************************************************************************)
(* Map<string, T>: key/value entries in insertion order                    *)
(***************************************************************************)
MapHas(m, key) == \E i \in 1..Len(m) : m[i].k = key
MapGet(m, key) == m[CHOOSE i \in 1..Len(m) : m[i].k = key].v
MapSet_append(m, key, val) == Append(m, [k |-> key, v |-> val])

MapSet(m, key, val) ==
  IF MapHas(m, key)
  THEN [i \in 1..Len(m) |-> IF m[i].k = key THEN [k |-> key, v |-> val] ELSE m[i]]
  ELSE Append(m, [k |-> key, v |-> val])
MapDelete_none(m, key) == m

MapDelete(m, key) == SelectSeq(m, LAMBDA en : en.k # key)
MapValues(m) == [i \in 1..Len(m) |-> m[i].v]
MapKeys(m) == {m[i].k : i \in 1..Len(m)}

(***************************************************************************)
(* Bounds of the model                                                     *)
(***************************************************************************)
MaxCalls == 4   \* calls made on one service instance
MaxClock == 1   \* the clock runs from 0 to MaxClock

VARIABLES
  rules,      \* AbuseDetectionService.rules   : Map<string, AbuseDetectionRule>
  alerts,     \* AbuseDetectionService.alerts  : Map<string, AbuseAlert>
  patterns,   \* AbuseDetectionService.patterns: Map<string, AbusePattern[]>
  now,        \* the value new Date() returns
  uuidCount,  \* number of uuidv4() values handed out
  calls,      \* number of calls made so far
  ret,        \* the last call: its name, whether it returned (ok) or threw, its result
  rvRule,     \* calculateRevenue: the rule argument
  rvAmount,   \* calculateRevenue: the amount argument
  rvContext,  \* calculateRevenue: the context argument, None when omitted
  rvResult,   \* calculateRevenue: the outcome of the call
  rvPc,       \* "call" before calculateRevenue has run, "done" after, "idle" when unused
  prConfig,   \* calculatePrice: the config argument
  prContext,  \* calculatePrice: the context argument
  prResult,   \* calculatePrice: the price returned
  prPc,       \* "call" before calculatePrice has run, "done" after, "idle" when unused
  adjustments,    \* PricingService.adjustments: Map<string, DynamicPricingAdjustment>
  prDynamic,      \* calculateDynamicPrice: the adjustment returned, None before the call
  events,         \* AttributionService.events: Map<string, AttributionEvent>
  atEvent,        \* trackAttribution: the event argument of the single call, None when unused
  atPc,           \* "call" before that trackAttribution has run, "done" after, "idle" when unused
  configurations, \* RevenueSharingService.configurations: Map<string, RevenueSharingConfiguration>
  sharingRules,   \* RevenueSharingService.rules: Map<string, RevenueSharingRule>
  pending,        \* settled promises whose continuation has not run yet, oldest first
  written         \* per configuration id, the value the last create or update stored

abuseVars == << rules, alerts, patterns, now, uuidCount, calls, ret >>
revenueVars == << rvRule, rvAmount, rvContext, rvResult, rvPc >>
pricingVars == << prConfig, prContext, prResult, prPc, adjustments, prDynamic >>
attributionVars == << events, atEvent, atPc >>
configVars == << configurations, sharingRules >>
promiseVars == << pending, written >>

\* the n-th value of uuidv4(): never the empty string, never handed out twice
uuidv4(n) == "uuid-" \o ToString(n)

NoDate == -1
None == << >>
Some(x) == << x >>

(***************************************************************************)
(* AbuseDetectionService                                                   *)
(***************************************************************************)
getRiskLevelValue_swapped(level) ==
  CASE level = "LOW" -> 1
    [] level = "MEDIUM" -> 2
    [] level = "HIGH" -> 4
    [] level = "CRITICAL" -> 3

\* getRiskLevelValue
getRiskLevelValue(level) ==
  CASE level = "LOW" -> 1
    [] level = "MEDIUM" -> 2
    [] level = "HIGH" -> 3
    [] level = "CRITICAL" -> 4

\* one condition of ruleMatches: the body of the every() callback
abuseConditionMet(cond, context) ==
  LET value == Lookup(context, cond.metric)
      threshold == cond.threshold
  IN  CASE cond.operator = "eq" -> StrictEq(value, threshold)
        [] cond.operator = "ne" -> ~StrictEq(value, threshold)
        [] cond.operator = "gt" -> NumGt(ToNumber(value), ToNumber(threshold))
        [] cond.operator = "gte" -> NumGte(ToNumber(value), ToNumber(threshold))
        [] cond.operator = "lt" -> NumLt(ToNumber(value), ToNumber(threshold))
        [] cond.operator = "lte" -> NumLte(ToNumber(value), ToNumber(threshold))
        [] cond.operator = "in" -> ArrayIncludes(threshold, value)
        [] cond.operator = "contains" -> StrIncludes(ToStr(value), ToStr(threshold))
        [] OTHER -> FALSE

ruleMatches_some(rule, context) ==
  \E i \in 1..Len(rule.conditions) : abuseConditionMet(rule.conditions[i], context)

ruleMatches_nonEmpty(rule, context) ==
  /\ Len(rule.conditions) > 0
  /\ \A i \in 1..Len(rule.conditions) : abuseConditionMet(rule.conditions[i], context)

\* ruleMatches: rule.conditions.every(...)
ruleMatches(rule, context) ==
  \A i \in 1..Len(rule.conditions) : abuseConditionMet(rule.conditions[i], context)

activeRulesOf_all(rs) == MapValues(rs)

\* Array.from(this.rules.values()).filter((r) => r.isActive)
activeRulesOf(rs) == SelectSeq(MapValues(rs), LAMBDA r : r.isActive)

\* the loop over activeRules of detectAbuse, from index i on
RECURSIVE DetectLoop(_, _, _, _, _)
DetectLoop(activeRules, context, i, detectedRules, maxRiskLevel) ==
  IF i > Len(activeRules)
  THEN [detectedRules |-> detectedRules, maxRiskLevel |-> maxRiskLevel]
  ELSE LET rule == activeRules[i]
       IN  IF ruleMatches(rule, context)
           THEN DetectLoop(activeRules, context, i + 1,
                           Append(detectedRules, rule.id),
                           IF getRiskLevelValue(rule.riskLevel) > getRiskLevelValue(maxRiskLevel)
                           THEN rule.riskLevel ELSE maxRiskLevel)
           ELSE DetectLoop(activeRules, context, i + 1, detectedRules, maxRiskLevel)

actionForRisk_table(maxRiskLevel) ==
  IF maxRiskLevel = "MEDIUM" THEN "HOLD"
  ELSE IF maxRiskLevel = "HIGH" THEN "REJECT"
  ELSE IF maxRiskLevel = "CRITICAL" THEN "SUSPEND"
  ELSE "FLAG"

\* the action of an alert, from its risk level
actionForRisk(maxRiskLevel) ==
  IF maxRiskLevel = "HIGH" THEN "HOLD"
  ELSE IF maxRiskLevel = "CRITICAL" THEN "SUSPEND"
  ELSE "FLAG"

SeqToSet(q) == {q[i] : i \in 1..Len(q)}

\* determineAbuseType
determineAbuseType(rs, ruleIds) ==
  LET all == MapValues(rs)
      hits == {i \in 1..Len(all) : all[i].id \in SeqToSet(ruleIds)}
  IN  IF hits = {} THEN "UNUSUAL_PATTERN"
      ELSE all[CHOOSE i \in hits : \A j \in hits : i <= j].abuseType

\* the alert detectAbuse builds, or None
detectAbuseResult(rs, affiliateId, context, uuid, date) ==
  LET found == DetectLoop(activeRulesOf(rs), context, 1, << >>, "LOW")
  IN  IF Len(found.detectedRules) = 0 THEN None
      ELSE Some([id |-> uuid,
                 tenantId |-> Lookup(context, "tenantId"),
                 affiliateId |-> affiliateId,
                 saleId |-> Lookup(context, "saleId"),
                 abuseType |-> determineAbuseType(rs, found.detectedRules),
                 riskLevel |-> found.maxRiskLevel,
                 detectedRules |-> found.detectedRules,
                 evidence |-> context,
                 action |-> actionForRisk(found.maxRiskLevel),
                 status |-> "OPEN",
                 createdAt |-> date,
                 updatedAt |-> date,
                 resolvedAt |-> NoDate])

\* { ...existing, ...rule, id: existing.id, createdAt: existing.createdAt, updatedAt: new Date() }
mergeRule(existing, partial, date) ==
  [f \in DOMAIN existing |->
     IF f = "id" THEN existing.id
     ELSE IF f = "createdAt" THEN existing.createdAt
     ELSE IF f = "updatedAt" THEN date
     ELSE IF f \in DOMAIN partial THEN partial[f]
     ELSE existing[f]]

(***************************************************************************)
(* Inputs of the abuse detection model                                     *)
(***************************************************************************)
TenantA == Str(<< "t", "A" >>)
TenantB == Str(<< "t", "B" >>)

AbuseRule(id, tenant, type, conds, risk, act, active) ==
  [id |-> id, tenantId |-> tenant, name |-> "rule", abuseType |-> type,
   conditions |-> conds, riskLevel |-> risk, action |-> act, isActive |-> active,
   createdAt |-> 0, updatedAt |-> 0]

AbuseCond(metric, operator, threshold) ==
  [metric |-> metric, operator |-> operator, threshold |-> threshold]

RuleInputs ==
  { AbuseRule("r1", TenantA, "CLICK_FRAUD",
              << AbuseCond("clickRate", "gt", Num(100)) >>, "HIGH", "REJECT", TRUE),
    AbuseRule("r2", TenantA, "SELF_DEALING",
              << AbuseCond("selfReferrals", "gt", Num(5)),
                 AbuseCond("clickRate", "gte", Num(50)) >>, "CRITICAL", "FLAG", TRUE),
    AbuseRule("r1", TenantA, "CLICK_FRAUD",
              << AbuseCond("clickRate", "gt", Num(100)) >>, "CRITICAL", "HOLD", FALSE),
    AbuseRule("", TenantB, "BRAND_BIDDING",
              << AbuseCond("category", "contains", Str(<< "d", "e" >>)) >>, "LOW", "SUSPEND", TRUE) }

RulePartials ==
  { [isActive |-> FALSE],
    [id |-> "r9", createdAt |-> 7, isActive |-> TRUE, riskLevel |-> "MEDIUM", action |-> "TERMINATE"] }

RuleIdInputs == {"r1", "r2", "r9", uuidv4(1)}

AbuseContexts ==
  { [EmptyCtx EXCEPT !["tenantId"] = TenantA, !["clickRate"] = Num(150),
                     !["selfReferrals"] = Num(10)],
    [EmptyCtx EXCEPT !["tenantId"] = TenantA, !["clickRate"] = Num(150)],
    [EmptyCtx EXCEPT !["tenantId"] = TenantB, !["clickRate"] = Num(50),
                     !["saleId"] = Str(<< "s", "1" >>)],
    EmptyCtx }

AffiliateIds == {"affiliate-001"}

(***************************************************************************)
(* Operations of AbuseDetectionService                                     *)
(***************************************************************************)
InitAbuse ==
  /\ rules = << >>
  /\ alerts = << >>
  /\ patterns = << >>
  /\ now = 0
  /\ uuidCount = 0
  /\ calls = 0
  /\ ret = [op |-> "new", ok |-> TRUE, result |-> None]

createRule(rule) ==
  /\ calls < MaxCalls
  /\ calls' = calls + 1
  /\ LET newRule == [rule EXCEPT !.id = IF rule.id # "" THEN rule.id
                                         ELSE uuidv4(uuidCount + 1),
                                  !.createdAt = now,
                                  !.updatedAt = now]
     IN  /\ rules' = MapSet(rules, newRule.id, newRule)
         /\ uuidCount' = IF rule.id # "" THEN uuidCount ELSE uuidCount + 1
         /\ ret' = [op |-> "createRule", ok |-> TRUE, result |-> None]
  /\ UNCHANGED << alerts, patterns, now >>

updateRule(id, partial) ==
  /\ calls < MaxCalls
  /\ calls' = calls + 1
  /\ IF ~MapHas(rules, id)
     THEN /\ ret' = [op |-> "updateRule", ok |-> FALSE, result |-> None]
          /\ UNCHANGED rules
     ELSE LET updated == mergeRule(MapGet(rules, id), partial, now)
          IN  /\ rules' = MapSet(rules, id, updated)
              /\ ret' = [op |-> "updateRule", ok |-> TRUE, result |-> None]
  /\ UNCHANGED << alerts, patterns, now, uuidCount >>

deleteRule_cascade(id) ==
  /\ calls < MaxCalls
  /\ calls' = calls + 1
  /\ IF ~MapHas(rules, id)
     THEN /\ ret' = [op |-> "deleteRule", ok |-> FALSE, result |-> None]
          /\ UNCHANGED << rules, alerts >>
     ELSE /\ rules' = MapDelete(rules, id)
          /\ alerts' = SelectSeq(alerts, LAMBDA en : \A k \in 1..Len(en.v.detectedRules) :
                                                      en.v.detectedRules[k] # id)
          /\ ret' = [op |-> "deleteRule", ok |-> TRUE, result |-> None]
  /\ UNCHANGED << patterns, now, uuidCount >>

deleteRule(id) ==
  /\ calls < MaxCalls
  /\ calls' = calls + 1
  /\ IF ~MapHas(rules, id)
     THEN /\ ret' = [op |-> "deleteRule", ok |-> FALSE, result |-> None]
          /\ UNCHANGED rules
     ELSE /\ rules' = MapDelete(rules, id)
          /\ ret' = [op |-> "deleteRule", ok |-> TRUE, result |-> None]
  /\ UNCHANGED << alerts, patterns, now, uuidCount >>

detectAbuse(affiliateId, context) ==
  LET result == detectAbuseResult(rules, affiliateId, context, uuidv4(uuidCount + 1), now)
  IN  /\ calls < MaxCalls
      /\ calls' = calls + 1
      /\ ret' = [op |-> "detectAbuse", ok |-> TRUE, result |-> result]
      /\ IF result = None
         THEN UNCHANGED << alerts, uuidCount >>
         ELSE /\ alerts' = MapSet(alerts, result[1].id, result[1])
              /\ uuidCount' = uuidCount + 1
      /\ UNCHANGED << rules, patterns, now >>

resolvedAlert_noStamp(alert, date) ==
  [alert EXCEPT !.status = "RESOLVED", !.updatedAt = date]

\* alert.status = 'RESOLVED'; alert.updatedAt = new Date(); alert.resolvedAt = new Date()
resolvedAlert(alert, date) ==
  [alert EXCEPT !.status = "RESOLVED", !.updatedAt = date, !.resolvedAt = date]

resolveAlert(alertId, resolution) ==
  /\ calls < MaxCalls
  /\ calls' = calls + 1
  /\ IF ~MapHas(alerts, alertId)
     THEN /\ ret' = [op |-> "resolveAlert", ok |-> FALSE, result |-> None]
          /\ UNCHANGED alerts
     ELSE /\ alerts' = MapSet(alerts, alertId, resolvedAlert(MapGet(alerts, alertId), now))
          /\ ret' = [op |-> "resolveAlert", ok |-> TRUE, result |-> None]
  /\ UNCHANGED << rules, patterns, now, uuidCount >>

\* time passes between two calls
Tick ==
  /\ now < MaxClock
  /\ now' = now + 1
  /\ ret' = [op |-> "tick", ok |-> TRUE, result |-> None]
  /\ UNCHANGED << rules, alerts, patterns, uuidCount, calls >>

AlertIdInputs == {uuidv4(n) : n \in 1..MaxCalls} \cup {"non-existent"}

NextAbuse ==
  \/ \E rule \in RuleInputs : createRule(rule)
  \/ \E id \in RuleIdInputs, partial \in RulePartials : updateRule(id, partial)
  \/ \E id \in RuleIdInputs : deleteRule(id)
  \/ \E affiliateId \in AffiliateIds, context \in AbuseContexts : detectAbuse(affiliateId, context)
  \/ \E alertId \in AlertIdInputs : resolveAlert(alertId, "False positive")
  \/ Tick

(***************************************************************************)
(* RevenueSharingService.calculateRevenue                                  *)
(***************************************************************************)
\* conditionMet
conditionMet(condition, data) ==
  LET value == Lookup(data, condition.field)
  IN  CASE condition.operator = "eq" -> StrictEq(value, condition.value)
        [] condition.operator = "ne" -> ~StrictEq(value, condition.value)
        [] condition.operator = "gt" -> NumGt(ToNumber(value), ToNumber(condition.value))
        [] condition.operator = "gte" -> NumGte(ToNumber(value), ToNumber(condition.value))
        [] condition.operator = "lt" -> NumLt(ToNumber(value), ToNumber(condition.value))
        [] condition.operator = "lte" -> NumLte(ToNumber(value), ToNumber(condition.value))
        [] condition.operator = "in" -> ArrayIncludes(condition.value, value)
        [] condition.operator = "contains" -> StrIncludes(ToStr(value), ToStr(condition.value))
        [] OTHER -> FALSE

\* rule.conditions.every((cond) => this.conditionMet(cond, context))
allConditionsMet(conditions, data) ==
  \A i \in 1..Len(conditions) : conditionMet(conditions[i], data)

\* the check "if rule applies" of calculateRevenue: TRUE when it returns 0 at once
ruleRejected(rule, context) ==
  /\ context # None
  /\ rule.conditions # None
  /\ Len(rule.conditions[1]) > 0
  /\ ~allConditionsMet(rule.conditions[1], context[1])

percentageRevenue_rateAsFraction(baseAmount, rule) == times(baseAmount, rule.baseRate)

\* case RevenueModelType.PERCENTAGE
percentageRevenue(baseAmount, rule) == dividedBy100(times(baseAmount, rule.baseRate))

RECURSIVE TierLoop_first(_, _, _, _)
TierLoop_first(tiers, amount, i, applicableRate) ==
  IF i > Len(tiers) THEN applicableRate
  ELSE IF greaterThanOrEqualTo(amount, tiers[i].threshold) THEN tiers[i].rate
  ELSE TierLoop_first(tiers, amount, i + 1, applicableRate)

\* the loop of calculateTieredRevenue over tiers, from index i on
RECURSIVE TierLoop(_, _, _, _)
TierLoop(tiers, amount, i, applicableRate) ==
  IF i > Len(tiers) THEN applicableRate
  ELSE TierLoop(tiers, amount, i + 1,
                IF greaterThanOrEqualTo(amount, tiers[i].threshold)
                THEN tiers[i].rate ELSE applicableRate)

\* calculateTieredRevenue
calculateTieredRevenue(amount, rule) ==
  IF rule.tierLevels = None \/ Len(rule.tierLevels[1]) = 0
  THEN dividedBy100(times(amount, rule.baseRate))
  ELSE dividedBy100(times(amount, TierLoop(rule.tierLevels[1], amount, 1, rule.baseRate)))

\* context?.performanceScore
performanceScoreOf(context) ==
  IF context = None THEN Undef ELSE Lookup(context[1], "performanceScore")

\* new Decimal(v) of a context value: None when the constructor throws
ValToDecimal(v) ==
  CASE v.t = "num" -> Some(D(v.n))
    [] v.t = "str" /\ ~StrToNumber(v.s).nan /\ v.s # << >> -> Some(D(StrToNumber(v.s).n))
    [] OTHER -> None

\* the loop of calculatePerformanceRevenue over bonusRates, from index i on
RECURSIVE BonusLoop(_, _, _, _)
BonusLoop(bonusRates, amount, i, rate) ==
  IF i > Len(bonusRates) THEN rate
  ELSE BonusLoop(bonusRates, amount, i + 1,
                 IF greaterThanOrEqualTo(amount, bonusRates[i].threshold)
                 THEN bonusRates[i].rate ELSE rate)

\* calculatePerformanceRevenue; None when new Decimal(performanceScore) throws
calculatePerformanceRevenue(amount, rule, context) ==
  LET score == performanceScoreOf(context)
      scaled == IF Truthy(score)
                THEN dividedBy100(times(rule.baseRate, ValToDecimal(score)[1]))
                ELSE rule.baseRate
      rate == IF rule.bonusRates # None
              THEN BonusLoop(rule.bonusRates[1], amount, 1, scaled)
              ELSE scaled
  IN  IF Truthy(score) /\ ValToDecimal(score) = None THEN None
      ELSE Some(dividedBy100(times(amount, rate)))

RECURSIVE HybridTierLoop_additive(_, _, _, _)
HybridTierLoop_additive(tiers, amount, i, revenue) ==
  IF i > Len(tiers) THEN revenue
  ELSE HybridTierLoop_additive(tiers, amount, i + 1,
                               IF greaterThanOrEqualTo(amount, tiers[i].threshold)
                               THEN plus(revenue, dividedBy100(times(amount, tiers[i].rate)))
                               ELSE revenue)

\* the loop of calculateHybridRevenue over tiers, from index i on
RECURSIVE HybridTierLoop(_, _, _, _)
HybridTierLoop(tiers, amount, i, revenue) ==
  IF i > Len(tiers) THEN revenue
  ELSE HybridTierLoop(tiers, amount, i + 1,
                      IF greaterThanOrEqualTo(amount, tiers[i].threshold)
                      THEN dividedBy100(times(amount, tiers[i].rate)) ELSE revenue)

\* calculateHybridRevenue; None when new Decimal(performanceScore) throws
calculateHybridRevenue(amount, rule, context) ==
  LET score == performanceScoreOf(context)
      base == dividedBy100(times(amount, rule.baseRate))
      tiered == IF rule.tierLevels # None
                THEN HybridTierLoop(rule.tierLevels[1], amount, 1, base)
                ELSE base
  IN  IF ~Truthy(score) THEN Some(tiered)
      ELSE IF ValToDecimal(score) = None THEN None
      ELSE Some(plus(tiered, dividedBy100(times(tiered, ValToDecimal(score)[1]))))

\* the switch on rule.modelType: the revenue before cap and minimum
rawRevenue(rule, baseAmount, context) ==
  CASE rule.modelType = "FLAT_RATE" -> Some(rule.baseRate)
    [] rule.modelType = "PERCENTAGE" -> Some(percentageRevenue(baseAmount, rule))
    [] rule.modelType = "TIERED" -> Some(calculateTieredRevenue(baseAmount, rule))
    [] rule.modelType = "PERFORMANCE_BASED" -> calculatePerformanceRevenue(baseAmount, rule, context)
    [] rule.modelType = "HYBRID" -> calculateHybridRevenue(baseAmount, rule, context)
    [] OTHER -> Some(D(0))

applyCapAndMin_minFirst(rule, revenue) ==
  LET raised == IF rule.minAmount # None /\ lessThan(revenue, rule.minAmount[1])
                THEN rule.minAmount[1] ELSE revenue
  IN  IF rule.capAmount # None /\ greaterThan(raised, rule.capAmount[1])
      THEN rule.capAmount[1] ELSE raised

\* "Apply cap if set" then "Apply minimum if set"
applyCapAndMin(rule, revenue) ==
  LET capped == IF rule.capAmount # None /\ greaterThan(revenue, rule.capAmount[1])
                THEN rule.capAmount[1] ELSE revenue
  IN  IF rule.minAmount # None /\ lessThan(capped, rule.minAmount[1])
      THEN rule.minAmount[1] ELSE capped

\* calculateRevenue: ok is FALSE when the call throws; raw is the revenue of the
\* model-specific computation, None when the call returned before it
calculateRevenue(rule, amount, context) ==
  IF ruleRejected(rule, context)
  THEN [ok |-> TRUE, raw |-> None, revenue |-> D(0)]
  ELSE LET raw == rawRevenue(rule, amount, context)
       IN  IF raw = None THEN [ok |-> FALSE, raw |-> None, revenue |-> D(0)]
           ELSE [ok |-> TRUE, raw |-> raw, revenue |-> applyCapAndMin(rule, raw[1])]

(***************************************************************************)
(* Inputs of calculateRevenue                                              *)
(***************************************************************************)
RevenueCond(field, operator, value) ==
  [field |-> field, operator |-> operator, value |-> value]

Tier(threshold, rate) == [threshold |-> D(threshold), rate |-> D(rate)]

Electronics == Str(<< "e", "l", "e", "c" >>)
Fashion == Str(<< "f", "a", "s", "h" >>)

ModelTypes == {"FLAT_RATE", "PERCENTAGE", "TIERED", "PERFORMANCE_BASED", "HYBRID"}

\* 5, 7.5 and 3.333333333
BaseRates == {D(5), DE(75, -1), DecFromDigits(<< 3, 3, 3, 3, 3, 3, 3, 3, 3, 3 >>, -9)}

ConditionOptions ==
  { None,
    Some(<< >>),
    Some(<< RevenueCond("category", "eq", Electronics) >>),
    Some(<< RevenueCond("category", "ne", Fashion),
            RevenueCond("quantity", "gte", Num(10)) >>) }

TierOptions ==
  { None,
    Some(<< >>),
    Some(<< Tier(1000, 10), Tier(5000, 15), Tier(10000, 20) >>),
    Some(<< Tier(5000, 15), Tier(1000, 10) >>) }

BonusOptions == {None, Some(<< Tier(5000, 12) >>)}
CapOptions == {None, Some(D(500))}
MinOptions == {None, Some(D(100)), Some(D(600))}

RevenueRules ==
  { [id |-> "rule-001", tenantId |-> TenantA, name |-> "rule", modelType |-> mt,
     baseRate |-> br, conditions |-> co, tierLevels |-> tl, bonusRates |-> bo,
     capAmount |-> ca, minAmount |-> mi, isActive |-> TRUE] :
       mt \in ModelTypes, br \in BaseRates, co \in ConditionOptions, tl \in TierOptions,
       bo \in BonusOptions, ca \in CapOptions, mi \in MinOptions }

\* 0, 100, 1000, 2000, 7000, 15000 and 123456789012.34
Amounts ==
  { D(0), D(100), D(1000), D(2000), D(7000), D(15000),
    DecFromDigits(<< 1, 2, 3, 4, 5, 6, 7, 8, 9, 0, 1, 2, 3, 4 >>, -2) }

RevenueContexts ==
  { None,
    Some(EmptyCtx),
    Some([EmptyCtx EXCEPT !["category"] = Electronics, !["quantity"] = Num(15),
                          !["performanceScore"] = Num(80)]),
    Some([EmptyCtx EXCEPT !["category"] = Fashion, !["performanceScore"] = Num(0)]) }

NoResult == [ok |-> TRUE, raw |-> None, revenue |-> D(0)]

IdleRevenue ==
  /\ rvRule = None
  /\ rvAmount = D(0)
  /\ rvContext = None
  /\ rvResult = NoResult
  /\ rvPc = "idle"

InitRevenue ==
  /\ rvRule \in {Some(r) : r \in RevenueRules}
  /\ rvAmount \in Amounts
  /\ rvContext \in RevenueContexts
  /\ rvResult = NoResult
  /\ rvPc = "call"

calculateRevenueCall ==
  /\ rvPc = "call"
  /\ rvResult' = calculateRevenue(rvRule[1], rvAmount, rvContext)
  /\ rvPc' = "done"
  /\ UNCHANGED << rvRule, rvAmount, rvContext >>

(***************************************************************************)
(* PricingService.calculatePrice                                           *)
(***************************************************************************)
\* one condition of ruleApplies: the body of the every() callback
pricingConditionMet(cond, context) ==
  LET value == Lookup(context, cond.field)
  IN  CASE cond.operator = "eq" -> StrictEq(value, cond.value)
        [] cond.operator = "ne" -> ~StrictEq(value, cond.value)
        [] cond.operator = "gt" -> NumGt(ToNumber(value), ToNumber(cond.value))
        [] cond.operator = "gte" -> NumGte(ToNumber(value), ToNumber(cond.value))
        [] cond.operator = "lt" -> NumLt(ToNumber(value), ToNumber(cond.value))
        [] cond.operator = "lte" -> NumLte(ToNumber(value), ToNumber(cond.value))
        [] cond.operator = "in" -> ArrayIncludes(cond.value, value)
        [] cond.operator = "contains" -> StrIncludes(ToStr(value), ToStr(cond.value))
        [] OTHER -> FALSE

\* ruleApplies
ruleApplies(rule, context) ==
  \A i \in 1..Len(rule.conditions) : pricingConditionMet(rule.conditions[i], context)

\* the predicate of config.overrides.find
overrideActive(o, context, date) ==
  /\ StrictEq(o.productId, Lookup(context, "productId"))
  /\ date >= o.validFrom
  /\ (o.validTo = None \/ date <= o.validTo[1])

\* config.overrides.find(...): the first active override, None when there is none
findOverride(config, context, date) ==
  IF config.overrides = None THEN None
  ELSE LET os == config.overrides[1]
           hits == {i \in 1..Len(os) : overrideActive(os[i], context, date)}
       IN  IF hits = {} THEN None
           ELSE Some(os[CHOOSE i \in hits : \A j \in hits : i <= j])

\* insertion of a rule into a list sorted by priority, after the rules of equal priority
RECURSIVE InsertByPriority(_, _)
InsertByPriority(sorted, rule) ==
  IF sorted = << >> THEN << rule >>
  ELSE IF rule.priority - Head(sorted).priority < 0 THEN << rule >> \o sorted
  ELSE << Head(sorted) >> \o InsertByPriority(Tail(sorted), rule)

RECURSIVE SortFrom(_, _, _)
SortFrom(rs, i, sorted) ==
  IF i > Len(rs) THEN sorted ELSE SortFrom(rs, i + 1, InsertByPriority(sorted, rs[i]))

sortedRules_unsorted(rs) == rs

\* [...config.rules].sort((a, b) => a.priority - b.priority): a stable sort
sortedRules(rs) == SortFrom(rs, 1, << >>)

\* the adjustment of one rule to the running price
adjustPrice(price, rule) ==
  IF rule.adjustmentType = "ABSOLUTE" THEN plus(price, rule.priceAdjustment)
  ELSE times(price, plus(D(1), dividedBy100(rule.priceAdjustment)))

\* the loop of calculatePrice over sortedRules, from index i on
RECURSIVE PriceLoop(_, _, _, _)
PriceLoop(sorted, context, i, price) ==
  IF i > Len(sorted) THEN price
  ELSE PriceLoop(sorted, context, i + 1,
                 IF ruleApplies(sorted[i], context) THEN adjustPrice(price, sorted[i])
                 ELSE price)

\* calculatePrice
calculatePrice(config, context, date) ==
  LET override == findOverride(config, context, date)
  IN  IF override # None THEN override[1].price
      ELSE PriceLoop(sortedRules(config.rules), context, 1, config.basePrice)

RECURSIVE DynamicLoop_reversed(_, _, _, _, _)
DynamicLoop_reversed(sorted, context, i, price, applied) ==
  IF i > Len(sorted) THEN [price |-> price, adjustments |-> applied]
  ELSE IF ruleApplies(sorted[i], context)
  THEN DynamicLoop_reversed(sorted, context, i + 1, adjustPrice(price, sorted[i]),
                             << [rule |-> sorted[i].name,
                                 adjustment |-> sorted[i].priceAdjustment,
                                 adjustmentType |-> sorted[i].adjustmentType] >> \o applied)
  ELSE DynamicLoop_reversed(sorted, context, i + 1, price, applied)

\* the loop of calculateDynamicPrice over sortedRules, from index i on
RECURSIVE DynamicLoop(_, _, _, _, _)
DynamicLoop(sorted, context, i, price, applied) ==
  IF i > Len(sorted) THEN [price |-> price, adjustments |-> applied]
  ELSE IF ruleApplies(sorted[i], context)
  THEN DynamicLoop(sorted, context, i + 1, adjustPrice(price, sorted[i]),
                   Append(applied, [rule |-> sorted[i].name,
                                    adjustment |-> sorted[i].priceAdjustment,
                                    adjustmentType |-> sorted[i].adjustmentType]))
  ELSE DynamicLoop(sorted, context, i + 1, price, applied)

\* calculateDynamicPrice: the adjustment it builds
calculateDynamicPrice(config, context, uuid, date) ==
  LET folded == DynamicLoop(sortedRules(config.rules), context, 1, config.basePrice, << >>)
  IN  [id |-> uuid,
       tenantId |-> config.tenantId,
       affiliateId |-> Lookup(context, "affiliateId"),
       basePrice |-> config.basePrice,
       adjustments |-> folded.adjustments,
       finalPrice |-> folded.price,
       calculatedAt |-> date]

(***************************************************************************)
(* Inputs of calculatePrice                                                *)
(***************************************************************************)
MaxConfigRules == 3   \* rules of one pricing configuration

PricingCond(field, operator, value) ==
  [field |-> field, operator |-> operator, value |-> value]

PricingRule(id, conds, adjustment, type, priority) ==
  [id |-> id, name |-> id, conditions |-> conds, priceAdjustment |-> adjustment,
   adjustmentType |-> type, priority |-> priority]

Gold == Str(<< "g", "o", "l", "d" >>)
ProductA == Str(<< "p", "1" >>)
ProductB == Str(<< "p", "2" >>)

PricingRulePool ==
  { PricingRule("volume", << PricingCond("quantity", "gte", Num(10)) >>, D(-10), "PERCENTAGE", 1),
    PricingRule("vip", << PricingCond("isVIP", "eq", Bool(TRUE)) >>, D(-5), "ABSOLUTE", 2),
    PricingRule("fee", << >>, D(10), "ABSOLUTE", 1),
    PricingRule("gold", << PricingCond("category", "eq", Gold),
                           PricingCond("quantity", "lt", Num(100)) >>, D(-15), "PERCENTAGE", 0) }

\* the lists of at most MaxConfigRules distinct rules of the pool
PricingRuleLists ==
  {rs \in UNION {[1..n -> PricingRulePool] : n \in 0..MaxConfigRules} :
     \A i, j \in 1..Len(rs) : i # j => rs[i] # rs[j]}

Override(productId, price, validFrom, validTo) ==
  [productId |-> productId, price |-> price, validFrom |-> validFrom, validTo |-> validTo]

OverrideOptions ==
  { None,
    Some(<< Override(ProductA, D(42), 1, None) >>),
    Some(<< Override(ProductB, D(7), 0, None), Override(ProductA, D(55), 0, Some(0)) >>) }

PricingConfigs ==
  { [id |-> "config-001", tenantId |-> TenantA, basePrice |-> bp, rules |-> rs,
     overrides |-> ov] :
       bp \in {D(100), DE(9999, -2)}, rs \in PricingRuleLists, ov \in OverrideOptions }

PricingContexts ==
  { [EmptyCtx EXCEPT !["quantity"] = Num(15), !["isVIP"] = Bool(TRUE),
                     !["productId"] = ProductA],
    [EmptyCtx EXCEPT !["quantity"] = Num(15), !["category"] = Gold],
    [EmptyCtx EXCEPT !["isVIP"] = Bool(TRUE), !["category"] = Gold,
                     !["productId"] = ProductA],
    EmptyCtx }

IdlePricing ==
  /\ prConfig = None
  /\ prContext = EmptyCtx
  /\ prResult = D(0)
  /\ prPc = "idle"
  /\ adjustments = << >>
  /\ prDynamic = None

InitPricing ==
  /\ prConfig \in {Some(c) : c \in PricingConfigs}
  /\ prContext \in PricingContexts
  /\ prResult = D(0)
  /\ prPc = "call"
  /\ adjustments = << >>
  /\ prDynamic = None

calculatePriceCall ==
  /\ prPc = "call"
  /\ prResult' = calculatePrice(prConfig[1], prContext, now)
  /\ prPc' = "done"
  /\ UNCHANGED << prConfig, prContext, adjustments, prDynamic >>

calculateDynamicPriceCall ==
  /\ prConfig # None
  /\ prDynamic = None
  /\ LET adjustment == calculateDynamicPrice(prConfig[1], prContext, uuidv4(uuidCount + 1), now)
     IN  /\ adjustments' = MapSet(adjustments, adjustment.id, adjustment)
         /\ prDynamic' = Some(adjustment)
  /\ uuidCount' = uuidCount + 1
  /\ UNCHANGED << prConfig, prContext, prResult, prPc >>

(***************************************************************************)
(* AttributionService                                                      *)
(***************************************************************************)
MaxTouchpoints == 3   \* touchpoints of one attribution event

weightOf_callerForSingle(attributionType, idx, length, given) ==
  CASE attributionType \in {"DIRECT", "LAST_CLICK"} ->
         IF length = 1 THEN given ELSE IF idx = length - 1 THEN D(1) ELSE D(0)
    [] attributionType = "FIRST_CLICK" -> IF idx = 0 THEN D(1) ELSE D(0)
    [] attributionType = "LINEAR" -> dividedBy(D(1), length)
    [] attributionType = "MULTI_TOUCH" -> dividedBy(D(idx + 1), (length * (length + 1)) \div 2)
    [] attributionType = "REFERRAL" ->
         IF idx = 0 \/ idx = length - 1 THEN DE(5, -1) ELSE D(0)
    [] OTHER -> given

\* the weight the switch of calculateWeights gives the touchpoint at index idx
\* (from 0) of a list of the given length; given is the weight it came with
weightOf(attributionType, idx, length, given) ==
  CASE attributionType \in {"DIRECT", "LAST_CLICK"} ->
         IF idx = length - 1 THEN D(1) ELSE D(0)
    [] attributionType = "FIRST_CLICK" -> IF idx = 0 THEN D(1) ELSE D(0)
    [] attributionType = "LINEAR" -> dividedBy(D(1), length)
    [] attributionType = "MULTI_TOUCH" -> dividedBy(D(idx + 1), (length * (length + 1)) \div 2)
    [] attributionType = "REFERRAL" ->
         IF idx = 0 \/ idx = length - 1 THEN DE(5, -1) ELSE D(0)
    [] OTHER -> given

calculateWeights_reversed(touchpoints, attributionType) ==
  IF Len(touchpoints) = 0 THEN << >>
  ELSE [i \in 1..Len(touchpoints) |->
          [touchpoints[i] EXCEPT
             !.weight = weightOf(attributionType, Len(touchpoints) - i, Len(touchpoints), @)]]

\* calculateWeights
calculateWeights(touchpoints, attributionType) ==
  IF Len(touchpoints) = 0 THEN << >>
  ELSE [i \in 1..Len(touchpoints) |->
          [touchpoints[i] EXCEPT
             !.weight = weightOf(attributionType, i - 1, Len(touchpoints), @)]]

\* calculateAttributionWeight: touchpoints.reduce((sum, tp) => sum.plus(tp.weight), 0)
RECURSIVE SumWeights(_, _, _)
SumWeights(touchpoints, i, sum) ==
  IF i > Len(touchpoints) THEN sum
  ELSE SumWeights(touchpoints, i + 1, plus(sum, touchpoints[i].weight))

calculateAttributionWeight(touchpoints) == SumWeights(touchpoints, 1, D(0))

\* the event trackAttribution stores
trackedEvent(event, uuid, date) ==
  LET weighted == calculateWeights(event.touchpoints, event.attributionType)
  IN  [event EXCEPT !.id = IF event.id # "" THEN event.id ELSE uuid,
                    !.createdAt = date,
                    !.touchpoints = weighted,
                    !.attributionWeight = calculateAttributionWeight(weighted)]

\* insertion of an event into a list sorted by (a, b) => b.createdAt - a.createdAt,
\* after the events that compare equal
RECURSIVE InsertNewestFirst(_, _)
InsertNewestFirst(sorted, event) ==
  IF sorted = << >> THEN << event >>
  ELSE IF Head(sorted).createdAt - event.createdAt < 0 THEN << event >> \o sorted
  ELSE << Head(sorted) >> \o InsertNewestFirst(Tail(sorted), event)

RECURSIVE SortNewestFirst(_, _, _)
SortNewestFirst(es, i, sorted) ==
  IF i > Len(es) THEN sorted ELSE SortNewestFirst(es, i + 1, InsertNewestFirst(sorted, es[i]))

historyFilter_primaryOnly(es, affiliateId) ==
  SelectSeq(MapValues(es), LAMBDA e : e.affiliateId = affiliateId)

\* the filter of getAttributionHistory
historyFilter(es, affiliateId) ==
  SelectSeq(MapValues(es),
            LAMBDA e : e.affiliateId = affiliateId \/ affiliateId \in SeqToSet(e.affiliateChain))

\* the list getAttributionHistory returns
attributionHistory(es, affiliateId) == SortNewestFirst(historyFilter(es, affiliateId), 1, << >>)

(***************************************************************************)
(* Inputs of AttributionService                                            *)
(***************************************************************************)
AttributionTypes == {"DIRECT", "REFERRAL", "MULTI_TOUCH", "FIRST_CLICK", "LAST_CLICK", "LINEAR"}

AffiliateNames == << "affiliate-001", "affiliate-002", "affiliate-003", "affiliate-004" >>

Touchpoint(affiliateId, timestamp, weight) ==
  [affiliateId |-> affiliateId, timestamp |-> timestamp, channel |-> "email", weight |-> weight]

\* n touchpoints in chronological order, each with the weight the caller wrote
Touchpoints(n, weight) ==
  [i \in 1..n |-> Touchpoint(AffiliateNames[((i - 1) % 4) + 1], i, weight)]

AttributionEvent(id, affiliateId, chain, type, tps, weight) ==
  [id |-> id, tenantId |-> TenantA, saleId |-> "sale-001", affiliateId |-> affiliateId,
   affiliateChain |-> chain, attributionType |-> type, attributionWeight |-> weight,
   touchpoints |-> tps, createdAt |-> 0]

\* what a caller may write into weight and attributionWeight
CallerWeights == {DE(33, -2), D(7)}

\* the events of the single-call model: every model, 0..MaxTouchpoints touchpoints
TrackEvents ==
  { AttributionEvent(id, "affiliate-001", << "affiliate-001" >>, type, Touchpoints(n, w), w) :
      id \in {"event-001", ""}, type \in AttributionTypes, n \in 0..MaxTouchpoints,
      w \in CallerWeights }

\* the events of the history model
HistoryEvents ==
  { AttributionEvent("event-hist-001", "affiliate-001", << "affiliate-001" >>,
                     "DIRECT", << >>, D(1)),
    AttributionEvent("event-hist-001", "affiliate-002", << "affiliate-002" >>,
                     "DIRECT", Touchpoints(1, D(1)), D(1)),
    AttributionEvent("event-hist-002", "affiliate-002",
                     << "affiliate-002", "affiliate-001" >>, "LINEAR", Touchpoints(2, D(1)), D(1)),
    AttributionEvent("", "affiliate-003", << >>, "REFERRAL", Touchpoints(1, D(1)), D(1)) }

HistoryAffiliates == {"affiliate-001", "affiliate-002", "affiliate-003", "non-existent"}

(***************************************************************************)
(* Operations of AttributionService                                        *)
(***************************************************************************)
IdleAttribution ==
  /\ events = << >>
  /\ atEvent = None
  /\ atPc = "idle"

InitAttribution ==
  /\ events = << >>
  /\ atEvent \in {Some(e) : e \in TrackEvents}
  /\ atPc = "call"

trackAttribution(event) ==
  /\ calls < MaxCalls
  /\ calls' = calls + 1
  /\ LET attributionEvent == trackedEvent(event, uuidv4(uuidCount + 1), now)
     IN  events' = MapSet(events, attributionEvent.id, attributionEvent)
  /\ uuidCount' = IF event.id # "" THEN uuidCount ELSE uuidCount + 1
  /\ ret' = [op |-> "trackAttribution", ok |-> TRUE, result |-> None]
  /\ UNCHANGED now

getAttributionHistory(affiliateId) ==
  /\ calls < MaxCalls
  /\ calls' = calls + 1
  /\ ret' = [op |-> "getAttributionHistory", ok |-> TRUE,
             result |-> attributionHistory(events, affiliateId)]
  /\ UNCHANGED << events, now, uuidCount >>

\* the single call of the model of the weights
trackAttributionCall ==
  /\ atPc = "call"
  /\ trackAttribution(atEvent[1])
  /\ atPc' = "done"
  /\ UNCHANGED atEvent

(***************************************************************************)
(* RevenueSharingService: the store of configurations                      *)
(***************************************************************************)
mergeConfiguration_partialWins(existing, partial, date) ==
  [f \in DOMAIN existing |->
     IF f = "updatedAt" THEN date
     ELSE IF f \in DOMAIN partial THEN partial[f]
     ELSE existing[f]]

\* { ...existing, ...config, id: existing.id, createdAt: existing.createdAt, updatedAt: new Date() }
mergeConfiguration(existing, partial, date) ==
  [f \in DOMAIN existing |->
     IF f = "id" THEN existing.id
     ELSE IF f = "createdAt" THEN existing.createdAt
     ELSE IF f = "updatedAt" THEN date
     ELSE IF f \in DOMAIN partial THEN partial[f]
     ELSE existing[f]]

\* for (const rule of configuration.rules) this.rules.set(rule.id, rule)
RECURSIVE StoreRules(_, _, _)
StoreRules(m, rs, i) ==
  IF i > Len(rs) THEN m ELSE StoreRules(MapSet(m, rs[i].id, rs[i]), rs, i + 1)

\* for (const rule of config.rules) this.rules.delete(rule.id)
RECURSIVE RemoveRules(_, _, _)
RemoveRules(m, rs, i) ==
  IF i > Len(rs) THEN m ELSE RemoveRules(MapDelete(m, rs[i].id), rs, i + 1)

listFilter_all(cs, tenantId) == MapValues(cs)

\* Array.from(this.configurations.values()).filter((c) => c.tenantId === tenantId)
listFilter(cs, tenantId) == SelectSeq(MapValues(cs), LAMBDA c : c.tenantId = tenantId)

(***************************************************************************)
(* Inputs of the store of configurations                                   *)
(***************************************************************************)
SharingRule(id, rate) ==
  [id |-> id, modelType |-> "PERCENTAGE", baseRate |-> D(rate)]

Configuration(id, tenantId, name, rs) ==
  [id |-> id, tenantId |-> tenantId, organizationId |-> "org-001", name |-> name,
   rules |-> rs, isActive |-> TRUE, createdAt |-> 0, updatedAt |-> 0]

ConfigInputs ==
  { Configuration("config-001", "tenant-001", "Tenant 1 Config", << SharingRule("rule-001", 10) >>),
    Configuration("config-001", "tenant-002", "Tenant 2 Config", << SharingRule("rule-002", 15) >>),
    Configuration("", "tenant-002", "Tenant 2 Config",
                  << SharingRule("rule-001", 10), SharingRule("rule-002", 15) >>) }

ConfigPartials ==
  { [name |-> "Updated Name", isActive |-> FALSE],
    [id |-> "config-009", createdAt |-> 7, updatedAt |-> 9, tenantId |-> "tenant-001"] }

ConfigIdInputs == {"config-001", uuidv4(1), "non-existent"}

ConfigTenants == {"tenant-001", "tenant-002"}

(***************************************************************************)
(* Operations on the store of configurations                               *)
(***************************************************************************)
InitConfigurations ==
  /\ configurations = << >>
  /\ sharingRules = << >>

createConfiguration(config) ==
  /\ calls < MaxCalls
  /\ calls' = calls + 1
  /\ LET configuration == [config EXCEPT !.id = IF config.id # "" THEN config.id
                                                ELSE uuidv4(uuidCount + 1),
                                         !.createdAt = now,
                                         !.updatedAt = now]
     IN  /\ configurations' = MapSet(configurations, configuration.id, configuration)
         /\ sharingRules' = StoreRules(sharingRules, configuration.rules, 1)
         /\ ret' = [op |-> "createConfiguration", ok |-> TRUE, result |-> Some(configuration)]
  /\ uuidCount' = IF config.id # "" THEN uuidCount ELSE uuidCount + 1
  /\ UNCHANGED now

updateConfiguration(id, partial) ==
  /\ calls < MaxCalls
  /\ calls' = calls + 1
  /\ IF ~MapHas(configurations, id)
     THEN /\ ret' = [op |-> "updateConfiguration", ok |-> FALSE, result |-> None]
          /\ UNCHANGED configurations
     ELSE LET updated == mergeConfiguration(MapGet(configurations, id), partial, now)
          IN  /\ configurations' = MapSet(configurations, id, updated)
              /\ ret' = [op |-> "updateConfiguration", ok |-> TRUE, result |-> Some(updated)]
  /\ UNCHANGED << sharingRules, now, uuidCount >>

getConfiguration(id) ==
  /\ calls < MaxCalls
  /\ calls' = calls + 1
  /\ IF ~MapHas(configurations, id)
     THEN ret' = [op |-> "getConfiguration", ok |-> FALSE, result |-> None]
     ELSE ret' = [op |-> "getConfiguration", ok |-> TRUE,
                  result |-> Some(MapGet(configurations, id))]
  /\ UNCHANGED << configurations, sharingRules, now, uuidCount >>

listConfigurations(tenantId) ==
  /\ calls < MaxCalls
  /\ calls' = calls + 1
  /\ ret' = [op |-> "listConfigurations", ok |-> TRUE,
             result |-> listFilter(configurations, tenantId)]
  /\ UNCHANGED << configurations, sharingRules, now, uuidCount >>

deleteConfiguration(id) ==
  /\ calls < MaxCalls
  /\ calls' = calls + 1
  /\ IF ~MapHas(configurations, id)
     THEN /\ ret' = [op |-> "deleteConfiguration", ok |-> FALSE, result |-> None]
          /\ UNCHANGED << configurations, sharingRules >>
     ELSE /\ sharingRules' = RemoveRules(sharingRules, MapGet(configurations, id).rules, 1)
          /\ configurations' = MapDelete(configurations, id)
          /\ ret' = [op |-> "deleteConfiguration", ok |-> TRUE, result |-> None]
  /\ UNCHANGED << now, uuidCount >>

(***************************************************************************)
(* Calls that are not awaited: an async method runs its whole body when it *)
(* is called (no method of the services awaits anything) and returns a     *)
(* settled promise; the continuation of the caller runs later.             *)
(***************************************************************************)
\* the ids a configuration can have
ConfigIdSpace == {"config-001", "non-existent"} \cup {uuidv4(n) : n \in 1..(MaxCalls + 1)}

InitPromises ==
  /\ pending = << >>
  /\ written = [id \in ConfigIdSpace |-> None]

\* a create or update call: the promise it returns, the value it wrote
callWrite ==
  /\ \/ \E config \in ConfigInputs : createConfiguration(config)
     \/ \E id \in ConfigIdInputs, partial \in ConfigPartials : updateConfiguration(id, partial)
  /\ pending' = Append(pending, ret')
  /\ written' = IF ret'.ok THEN [written EXCEPT ![ret'.result[1].id] = ret'.result]
                ELSE written

callGet ==
  /\ \E id \in ConfigIdInputs : getConfiguration(id)
  /\ pending' = Append(pending, ret')
  /\ UNCHANGED written

callDelete ==
  \E id \in ConfigIdInputs :
    /\ deleteConfiguration(id)
    /\ pending' = Append(pending, ret')
    /\ written' = IF ret'.ok THEN [written EXCEPT ![id] = None] ELSE written

\* the continuation of the oldest settled promise runs
continue ==
  /\ pending # << >>
  /\ pending' = Tail(pending)
  /\ UNCHANGED << written, configurations, sharingRules, now, uuidCount, calls, ret >>

(***************************************************************************)
(* AbuseDetectionService: getAbuseAlerts, detectAnomalies, validateRule    *)
(***************************************************************************)
\* the list getAbuseAlerts returns: the alerts of the tenant, newest first
abuseAlertsOf(as, tenantId) ==
  SortNewestFirst(SelectSeq(MapValues(as), LAMBDA a : StrictEq(a.tenantId, tenantId)),
                  1, << >>)

getAbuseAlerts(tenantId) ==
  /\ calls < MaxCalls
  /\ calls' = calls + 1
  /\ ret' = [op |-> "getAbuseAlerts", ok |-> TRUE, result |-> Some(abuseAlertsOf(alerts, tenantId))]
  /\ UNCHANGED << rules, alerts, patterns, now, uuidCount >>

\* Decimal.prototype.minus
minus(x, y) == DecRound(ExactMinus(x, y))

\* the integer square root of the natural c, found digit by digit from the
\* pair of digits at index i down; r is the root of the digits above and rem
\* what they leave: each step takes the largest digit d with (20 r + d) d <=
\* 100 rem + pair
RECURSIVE IntegerRoot(_, _, _, _)
IntegerRoot(c, i, r, rem) ==
  IF i < 0 THEN r
  ELSE LET pair == << c[2 * i + 1], IF 2 * i + 2 <= Len(c) THEN c[2 * i + 2] ELSE 0 >>
           cur == StripHigh(pair \o rem)
           twenty == MulDigit(<< 0 >> \o r, 2, 0)
           trial(d) == StripHigh(MulDigit(<< d >> \o Tail(twenty), d, 0))
           fits(d) == NatCmp(trial(d), cur) <= 0
           digit == CHOOSE d \in 0..9 : fits(d) /\ (d = 9 \/ ~fits(d + 1))
           root == StripHigh(<< digit >> \o r)
           left == NatSub(cur, trial(digit))
       IN  IF Len(root) + Len(left) >= 0 THEN IntegerRoot(c, i - 1, root, left) ELSE << >>

\* Decimal.prototype.sqrt of a non-negative decimal, to PRECISION digits
sqrt(x) ==
  IF x.c = << >> THEN x
  ELSE LET short == 2 * (PRECISION + 2) - Len(x.c)
           k0 == IF short > 0 THEN short ELSE 0
           k == IF (x.e - k0) % 2 = 0 THEN k0 ELSE k0 + 1
           c == Zeros(k) \o x.c
       IN  DecRound(DecNorm(FALSE, IntegerRoot(c, (Len(c) + 1) \div 2 - 1, << >>, << >>),
                            (x.e - k) \div 2))

historyOf_seeded(ps, affiliateId, metric) ==
  << [affiliateId |-> affiliateId, metric |-> metric, value |-> D(0)] >>

\* this.patterns.get(`${affiliateId}:${metric}`) || []
historyOf(ps, affiliateId, metric) ==
  LET key == affiliateId \o ":" \o metric
  IN  IF MapHas(ps, key) THEN MapGet(ps, key) ELSE << >>

\* history.reduce((sum, p) => sum.plus(p.value), new Decimal(0)), from index i on
RECURSIVE SumValues(_, _, _)
SumValues(history, i, sum) ==
  IF i > Len(history) THEN sum ELSE SumValues(history, i + 1, plus(sum, history[i].value))

\* history.reduce((sum, p) => sum.plus(p.value.minus(mean).pow(2)), new Decimal(0))
RECURSIVE SumSquares(_, _, _, _)
SumSquares(history, mean, i, sum) ==
  IF i > Len(history) THEN sum
  ELSE LET d == minus(history[i].value, mean)
       IN  SumSquares(history, mean, i + 1, plus(sum, times(d, d)))

\* the pattern pushed for a metric that has a history
anomalyPattern(affiliateId, metric, value, history) ==
  LET mean == dividedBy(SumValues(history, 1, D(0)), Len(history))
      variance == dividedBy(SumSquares(history, mean, 1, D(0)), Len(history))
      stdDev == sqrt(variance)
      min == minus(mean, times(stdDev, D(2)))
      max == plus(mean, times(stdDev, D(2)))
      isAnomaly == lessThan(value, min) \/ greaterThan(value, max)
  IN  [affiliateId |-> affiliateId,
       metric |-> metric,
       value |-> value,
       expectedRange |-> [min |-> min, max |-> max],
       deviation |-> IF isAnomaly THEN DecAbs(minus(value, mean)) ELSE D(0),
       isAnomaly |-> isAnomaly]

\* the loop of detectAnomalies over Object.entries(metrics), from index i on
RECURSIVE AnomalyLoop(_, _, _, _, _)
AnomalyLoop(ps, affiliateId, metrics, i, found) ==
  IF i > Len(metrics) THEN found
  ELSE LET history == historyOf(ps, affiliateId, metrics[i].metric)
       IN  AnomalyLoop(ps, affiliateId, metrics, i + 1,
                       IF Len(history) > 0
                       THEN Append(found, anomalyPattern(affiliateId, metrics[i].metric,
                                                          metrics[i].value, history))
                       ELSE found)

detectAnomalies(affiliateId, metrics) ==
  /\ calls < MaxCalls
  /\ calls' = calls + 1
  /\ ret' = [op |-> "detectAnomalies", ok |-> TRUE,
             result |-> Some(AnomalyLoop(patterns, affiliateId, metrics, 1, << >>))]
  /\ UNCHANGED << rules, alerts, patterns, now, uuidCount >>

\* rule.name.trim().length === 0 on the names of the model
isBlank(name) == name \in {"", " ", "  "}

\* validateRule: { valid, errors }
validateRuleResult(rule) ==
  LET errors ==
        (IF ~Truthy(rule.tenantId) THEN << "Tenant ID is required" >> ELSE << >>)
        \o (IF isBlank(rule.name) THEN << "Rule name is required" >> ELSE << >>)
        \o (IF rule.abuseType = "" THEN << "Abuse type is required" >> ELSE << >>)
        \o (IF Len(rule.conditions) = 0 THEN << "At least one condition is required" >>
            ELSE << >>)
  IN  [valid |-> Len(errors) = 0, errors |-> errors]

validateRule(rule) ==
  /\ calls < MaxCalls
  /\ calls' = calls + 1
  /\ ret' = [op |-> "validateRule", ok |-> TRUE, result |-> Some(validateRuleResult(rule))]
  /\ UNCHANGED << rules, alerts, patterns, now, uuidCount >>

(***************************************************************************)
(* Inputs of the runs that use every public operation of                   *)
(* AbuseDetectionService, and of the single calls on unconditional rules   *)
(***************************************************************************)
\* an active rule without conditions and a rule of another tenant with one
OperationRules ==
  { AbuseRule("u1", TenantA, "CLICK_FRAUD", << >>, "HIGH", "FLAG", TRUE),
    AbuseRule("r1", TenantB, "SELF_DEALING",
              << AbuseCond("clickRate", "gt", Num(100)) >>, "CRITICAL", "SUSPEND", TRUE) }

OperationPartials ==
  { [isActive |-> FALSE],
    [riskLevel |-> "LOW", action |-> "TERMINATE"] }

OperationRuleIds == {"u1", "r1"}

OperationContexts ==
  { [EmptyCtx EXCEPT !["tenantId"] = TenantA, !["clickRate"] = Num(150)],
    [EmptyCtx EXCEPT !["tenantId"] = TenantB, !["saleId"] = Str(<< "s", "1" >>)],
    EmptyCtx }

OperationAlertIds == {uuidv4(1), uuidv4(2), "non-existent"}

OperationTenants == {TenantA, TenantB}

\* Object.entries(metrics)
MetricInputs ==
  { << [metric |-> "clickRate", value |-> D(150)] >>,
    << [metric |-> "clickRate", value |-> D(150)],
       [metric |-> "conversionRate", value |-> DE(5, -1)] >> }

UnconditionalRevenueRules ==
  { [id |-> "rule-001", tenantId |-> TenantA, name |-> "rule", modelType |-> mt,
     baseRate |-> D(10), conditions |-> co, tierLevels |-> None, bonusRates |-> None,
     capAmount |-> None, minAmount |-> None, isActive |-> TRUE] :
       mt \in {"PERCENTAGE", "FLAT_RATE"},
       co \in {None, Some(<< >>), Some(<< RevenueCond("category", "eq", Electronics) >>)} }

InitUnconditionalRevenue ==
  /\ rvRule \in {Some(r) : r \in UnconditionalRevenueRules}
  /\ rvAmount = D(1000)
  /\ rvContext \in RevenueContexts
  /\ rvResult = NoResult
  /\ rvPc = "call"

\* "fee" has no conditions; "surcharge" has none either and comes after it
UnconditionalPricingConfigs ==
  { [id |-> "config-001", tenantId |-> TenantA, basePrice |-> D(100), rules |-> rs,
     overrides |-> ov] :
       rs \in { << PricingRule("fee", << >>, D(10), "ABSOLUTE", 1) >>,
                << PricingRule("surcharge", << >>, D(10), "PERCENTAGE", 2),
                   PricingRule("fee", << >>, D(10), "ABSOLUTE", 1) >>,
                << PricingRule("volume", << PricingCond("quantity", "gte", Num(10)) >>,
                               D(-10), "PERCENTAGE", 1),
                   PricingRule("fee", << >>, D(10), "ABSOLUTE", 1) >> },
       ov \in {None, Some(<< Override(ProductA, D(42), 1, None) >>)} }

InitUnconditionalPricing ==
  /\ prConfig \in {Some(c) : c \in UnconditionalPricingConfigs}
  /\ prContext \in PricingContexts
  /\ prResult = D(0)
  /\ prPc = "call"
  /\ adjustments = << >>
  /\ prDynamic = None

(***************************************************************************)
(* Single calls of the operations that read no store: a condition          *)
(* evaluator, a serializer, a validator                                    *)
(***************************************************************************)
VARIABLES
  cdCondition,  \* the condition handed to the three condition evaluators
  cdContext,    \* the context (data) handed to them
  cdResult,     \* per evaluator, what it returned: None before its call
  tjConfig,     \* toJSON: the config argument, None when unused
  tjWire,       \* toJSON: the object returned, None before the call
  vcConfig,     \* validateConfiguration: the config argument, None when unused
  vcResult      \* validateConfiguration: { valid, errors }, None before the call

conditionVars == << cdCondition, cdContext, cdResult >>
wireVars == << tjConfig, tjWire >>
validationVars == << vcConfig, vcResult >>
pureVars == << conditionVars, wireVars, validationVars >>

NoVerdicts == [conditionMet |-> None, ruleMatches |-> None, ruleApplies |-> None]

IdleConditions ==
  /\ cdCondition = None
  /\ cdContext = EmptyCtx
  /\ cdResult = NoVerdicts

IdleWire ==
  /\ tjConfig = None
  /\ tjWire = None

IdleValidation ==
  /\ vcConfig = None
  /\ vcResult = None

(***************************************************************************)
(* The three condition evaluators on one condition and one context         *)
(***************************************************************************)
ConditionFields == {"category", "quantity"}

ConditionOperators == {"eq", "ne", "gt", "gte", "lt", "lte", "in", "contains", "regex"}

ConditionValues ==
  { Undef, Num(0), Num(10), Bool(TRUE), Str(<< >>), Str(<< "d", "e" >>), Gold,
    Arr(<< Num(10), Gold >>), Arr(<< Undef >>) }

ConditionInputs ==
  { RevenueCond(f, op, v) : f \in ConditionFields, op \in ConditionOperators,
                            v \in ConditionValues }

ConditionContexts ==
  { EmptyCtx,
    [EmptyCtx EXCEPT !["quantity"] = Num(10)],
    [EmptyCtx EXCEPT !["category"] = Gold, !["quantity"] = Num(15)] }

InitConditions ==
  /\ cdCondition \in {Some(c) : c \in ConditionInputs}
  /\ cdContext \in ConditionContexts
  /\ cdResult = NoVerdicts

\* RevenueSharingService.conditionMet(condition, data)
conditionMetCall ==
  /\ cdCondition # None
  /\ cdResult.conditionMet = None
  /\ cdResult' = [cdResult EXCEPT !.conditionMet = Some(conditionMet(cdCondition[1], cdContext))]
  /\ UNCHANGED << cdCondition, cdContext >>

\* AbuseDetectionService.ruleMatches on a rule holding the one condition
ruleMatchesCall ==
  /\ cdCondition # None
  /\ cdResult.ruleMatches = None
  /\ LET c == cdCondition[1]
         rule == AbuseRule("r1", TenantA, "CLICK_FRAUD",
                           << AbuseCond(c.field, c.operator, c.value) >>, "HIGH", "FLAG", TRUE)
     IN  cdResult' = [cdResult EXCEPT !.ruleMatches = Some(ruleMatches(rule, cdContext))]
  /\ UNCHANGED << cdCondition, cdContext >>

\* PricingService.ruleApplies on a rule holding the one condition
ruleAppliesCall ==
  /\ cdCondition # None
  /\ cdResult.ruleApplies = None
  /\ LET rule == PricingRule("rule-001", << cdCondition[1] >>, D(10), "ABSOLUTE", 1)
     IN  cdResult' = [cdResult EXCEPT !.ruleApplies = Some(ruleApplies(rule, cdContext))]
  /\ UNCHANGED << cdCondition, cdContext >>

(***************************************************************************)
(* toJSON of RevenueSharingService and of PricingService                   *)
(***************************************************************************)
\* the decimal digits of a coefficient, most significant first
DigitString(c) == [i \in 1..Len(c) |-> DigitChars[c[Len(c) + 1 - i] + 1]]

\* Decimal.prototype.toString: exponential notation when the exponent of the
\* leading digit is at most toExpNeg = -7 or at least toExpPos = 21
toString(x) ==
  LET ds == DigitString(x.c)
      lead == Len(x.c) + x.e - 1
      sign == IF x.neg THEN << "-" >> ELSE << >>
      body ==
        IF lead <= -7 \/ lead >= 21
        THEN << Head(ds) >> \o (IF Len(ds) > 1 THEN << "." >> \o Tail(ds) ELSE << >>)
               \o << "e" >> \o (IF lead < 0 THEN << "-" >> \o NatToChars(-lead)
                                ELSE << "+" >> \o NatToChars(lead))
        ELSE IF x.e >= 0 THEN ds \o [i \in 1..x.e |-> "0"]
        ELSE IF Len(ds) > -x.e
        THEN SubSeq(ds, 1, Len(ds) + x.e) \o << "." >> \o SubSeq(ds, Len(ds) + x.e + 1, Len(ds))
        ELSE << "0", "." >> \o [i \in 1..(-x.e - Len(ds)) |-> "0"] \o ds
  IN  IF x.c = << >> THEN << "0" >> ELSE sign \o body

\* Date.prototype.toISOString of the dates of the model (instants of the clock)
toISOString(date) == << "T" >> \o NatToChars(date)

\* RevenueSharingService.toJSON
revenueToJSON(config) ==
  [id |-> config.id,
   tenantId |-> config.tenantId,
   organizationId |-> config.organizationId,
   name |-> config.name,
   description |-> config.description,
   rules |-> [i \in 1..Len(config.rules) |->
                [id |-> config.rules[i].id,
                 name |-> config.rules[i].name,
                 modelType |-> config.rules[i].modelType,
                 baseRate |-> toString(config.rules[i].baseRate)]],
   isActive |-> config.isActive,
   createdAt |-> toISOString(config.createdAt),
   updatedAt |-> toISOString(config.updatedAt)]

\* PricingService.toJSON
pricingToJSON(config) ==
  [id |-> config.id,
   tenantId |-> config.tenantId,
   organizationId |-> config.organizationId,
   actorId |-> config.actorId,
   actorType |-> config.actorType,
   modelType |-> config.modelType,
   basePrice |-> toString(config.basePrice),
   rules |-> [i \in 1..Len(config.rules) |->
                [id |-> config.rules[i].id,
                 name |-> config.rules[i].name,
                 priceAdjustment |-> toString(config.rules[i].priceAdjustment),
                 adjustmentType |-> config.rules[i].adjustmentType,
                 priority |-> config.rules[i].priority]],
   isActive |-> config.isActive,
   createdAt |-> toISOString(config.createdAt),
   updatedAt |-> toISOString(config.updatedAt)]

\* 10, 7.5, 3.333333333, 0, -5, 1e-7, 1.23e+21 and 0.00012
WireDecimals ==
  { D(10), DE(75, -1), DecFromDigits(<< 3, 3, 3, 3, 3, 3, 3, 3, 3, 3 >>, -9), D(0), D(-5),
    DE(1, -7), DE(123, 19), DE(12, -5) }

\* a rule with none of its optional fields and one with all of them
WireRevenueRules ==
  { [id |-> "rule-001", tenantId |-> TenantA, name |-> "JSON Rule", modelType |-> "PERCENTAGE",
     baseRate |-> br, conditions |-> None, tierLevels |-> None, bonusRates |-> None,
     capAmount |-> None, minAmount |-> None, isActive |-> TRUE] : br \in WireDecimals }
  \cup
  { [id |-> "rule-002", tenantId |-> TenantA, name |-> "JSON Rule", modelType |-> "HYBRID",
     baseRate |-> br,
     conditions |-> Some(<< RevenueCond("category", "eq", Electronics) >>),
     tierLevels |-> Some(<< Tier(1000, 10), Tier(5000, 15) >>),
     bonusRates |-> Some(<< Tier(5000, 12) >>),
     capAmount |-> Some(D(500)), minAmount |-> Some(D(100)), isActive |-> TRUE] :
       br \in WireDecimals }

WireRevenueConfigs ==
  { [id |-> "config-json-001", tenantId |-> TenantA, organizationId |-> "org-001",
     name |-> "JSON Test Config", description |-> None, rules |-> rs, isActive |-> TRUE,
     createdAt |-> 0, updatedAt |-> 1] :
       rs \in {<< >>} \cup {<< r >> : r \in WireRevenueRules}
                \cup {<< r, q >> : r, q \in {w \in WireRevenueRules : w.baseRate = D(10)}} }

WirePricingRules ==
  { PricingRule("rule-001", conds, adj, "PERCENTAGE", 1) :
      conds \in {<< >>, << PricingCond("quantity", "gte", Num(10)) >>}, adj \in WireDecimals }

WirePricingConfigs ==
  { [id |-> "config-json-002", tenantId |-> TenantA, organizationId |-> "org-001",
     actorId |-> "actor-001", actorType |-> "PARTNER", modelType |-> "DYNAMIC",
     basePrice |-> bp, rules |-> rs, overrides |-> ov, isActive |-> TRUE,
     createdAt |-> 0, updatedAt |-> 1] :
       bp \in {D(100), DE(9999, -2)},
       rs \in {<< >>} \cup {<< r >> : r \in WirePricingRules},
       ov \in {None, Some(<< Override(ProductA, D(42), 1, None) >>)} }

InitWire ==
  /\ tjConfig \in {Some([service |-> "RevenueSharingService", config |-> c]) :
                     c \in WireRevenueConfigs}
                  \cup {Some([service |-> "PricingService", config |-> c]) :
                          c \in WirePricingConfigs}
  /\ tjWire = None

revenueToJSONCall ==
  /\ tjConfig # None
  /\ tjConfig[1].service = "RevenueSharingService"
  /\ tjWire = None
  /\ tjWire' = Some(revenueToJSON(tjConfig[1].config))
  /\ UNCHANGED tjConfig

pricingToJSONCall ==
  /\ tjConfig # None
  /\ tjConfig[1].service = "PricingService"
  /\ tjWire = None
  /\ tjWire' = Some(pricingToJSON(tjConfig[1].config))
  /\ UNCHANGED tjConfig

(***************************************************************************)
(* RevenueSharingService.validateConfiguration                             *)
(***************************************************************************)
RECURSIVE trimStart(_)
trimStart(chars) ==
  IF chars # << >> /\ Head(chars) = " " THEN trimStart(Tail(chars)) ELSE chars

RECURSIVE trimEnd(_)
trimEnd(chars) ==
  IF chars # << >> /\ chars[Len(chars)] = " "
  THEN trimEnd(SubSeq(chars, 1, Len(chars) - 1)) ELSE chars

\* String.prototype.trim on the strings of the model
trim(chars) == trimEnd(trimStart(chars))

\* validateConfiguration
validateConfiguration(config) ==
  LET errors ==
        (IF ~Truthy(config.tenantId) THEN << "Tenant ID is required" >> ELSE << >>)
        \o (IF ~Truthy(config.organizationId) THEN << "Organization ID is required" >>
            ELSE << >>)
        \o (IF ~Truthy(config.name) \/ Len(trim(config.name.s)) = 0
            THEN << "Configuration name is required" >> ELSE << >>)
        \o (IF Len(config.rules) = 0 THEN << "At least one rule is required" >> ELSE << >>)
  IN  [valid |-> Len(errors) = 0, errors |-> errors]

\* rules of a supported model type, of an unknown one and of a misspelt one
ValidationRules ==
  { [id |-> "rule-001", tenantId |-> TenantA, name |-> "rule", modelType |-> mt,
     baseRate |-> D(10), conditions |-> None, tierLevels |-> None, bonusRates |-> None,
     capAmount |-> None, minAmount |-> mi, isActive |-> TRUE] :
       mt \in {"PERCENTAGE", "FLAT_RATE", "COMMISSION", "percentage"},
       mi \in {None, Some(D(100))} }

ValidationRuleLists ==
  {<< >>} \cup {<< r >> : r \in ValidationRules}
    \cup {<< r, q >> : r \in {v \in ValidationRules : v.modelType = "PERCENTAGE"},
                       q \in {v \in ValidationRules : v.minAmount = None}}

ValidationConfigs ==
  { [id |-> "config-001", tenantId |-> t, organizationId |-> o, name |-> n, rules |-> rs] :
      t \in {Undef, Str(<< >>), TenantA},
      o \in {Undef, Str(<< "o", "1" >>)},
      n \in {Undef, Str(<< >>), Str(<< " ", " " >>), Str(<< "T", "e", "s", "t" >>)},
      rs \in ValidationRuleLists }

\* one configuration to validate and, when it has rules, one of them to
\* calculate a revenue with
InitValidation ==
  /\ vcConfig \in {Some(c) : c \in ValidationConfigs}
  /\ vcResult = None
  /\ rvRule \in IF Len(vcConfig[1].rules) = 0 THEN {None}
                ELSE {Some(vcConfig[1].rules[i]) : i \in 1..Len(vcConfig[1].rules)}
  /\ rvAmount = D(1000)
  /\ rvContext \in {None, Some(EmptyCtx)}
  /\ rvResult = NoResult
  /\ rvPc = IF rvRule = None THEN "idle" ELSE "call"

validateConfigurationCall ==
  /\ vcConfig # None
  /\ vcResult = None
  /\ vcResult' = Some(validateConfiguration(vcConfig[1]))
  /\ UNCHANGED vcConfig

IdlePure == IdleConditions /\ IdleWire /\ IdleValidation

vars == << abuseVars, revenueVars, pricingVars, attributionVars, configVars, promiseVars, pureVars >>

\* the stores of the services a specification does not use
IdleStores == IdleAttribution /\ InitConfigurations /\ InitPromises /\ IdlePure

\* AbuseDetectionService, one instance
Init == InitAbuse /\ IdleRevenue /\ IdlePricing /\ IdleStores
Next ==
  NextAbuse /\ UNCHANGED << revenueVars, pricingVars, attributionVars, configVars, promiseVars, pureVars >>
Spec == Init /\ [][Next]_vars

\* RevenueSharingService.calculateRevenue on every input of the model
NextRevenue ==
  calculateRevenueCall
    /\ UNCHANGED << abuseVars, pricingVars, attributionVars, configVars, promiseVars, pureVars >>
InitRevenueCall == InitAbuse /\ InitRevenue /\ IdlePricing /\ IdleStores
SpecRevenue == InitRevenueCall /\ [][NextRevenue]_vars

\* PricingService.calculatePrice and calculateDynamicPrice on every input of
\* the model, called at any time
NextPricing ==
  \/ calculatePriceCall
       /\ UNCHANGED << abuseVars, revenueVars, attributionVars, configVars, promiseVars, pureVars >>
  \/ calculateDynamicPriceCall
       /\ UNCHANGED << rules, alerts, patterns, now, calls, ret,
                       revenueVars, attributionVars, configVars, promiseVars, pureVars >>
  \/ prPc = "call" /\ Tick
       /\ UNCHANGED << revenueVars, pricingVars, attributionVars, configVars, promiseVars, pureVars >>
InitPricingCall == InitAbuse /\ IdleRevenue /\ InitPricing /\ IdleStores
SpecPricing == InitPricingCall /\ [][NextPricing]_vars

\* AttributionService.trackAttribution on every input of the model
NextWeights ==
  trackAttributionCall
    /\ UNCHANGED << rules, alerts, patterns, revenueVars, pricingVars, configVars, promiseVars, pureVars >>
InitWeights ==
  InitAbuse /\ IdleRevenue /\ IdlePricing /\ InitAttribution /\ InitConfigurations /\ InitPromises /\ IdlePure
SpecWeights == InitWeights /\ [][NextWeights]_vars

\* AttributionService, one instance: events tracked and histories read
NextHistory ==
  \/ (\E event \in HistoryEvents : trackAttribution(event))
       /\ UNCHANGED << rules, alerts, patterns, atEvent, atPc,
                       revenueVars, pricingVars, configVars, promiseVars, pureVars >>
  \/ (\E affiliateId \in HistoryAffiliates : getAttributionHistory(affiliateId))
       /\ UNCHANGED << rules, alerts, patterns, atEvent, atPc,
                       revenueVars, pricingVars, configVars, promiseVars, pureVars >>
  \/ Tick /\ UNCHANGED << revenueVars, pricingVars, attributionVars, configVars, promiseVars, pureVars >>
InitHistory == InitAbuse /\ IdleRevenue /\ IdlePricing /\ IdleStores
SpecHistory == InitHistory /\ [][NextHistory]_vars

\* the stores of RevenueSharingService and AbuseDetectionService, each call awaited
NextStores ==
  \/ (\/ \E config \in ConfigInputs : createConfiguration(config)
      \/ \E id \in ConfigIdInputs, partial \in ConfigPartials : updateConfiguration(id, partial)
      \/ \E id \in ConfigIdInputs : getConfiguration(id)
      \/ \E tenantId \in ConfigTenants : listConfigurations(tenantId)
      \/ \E id \in ConfigIdInputs : deleteConfiguration(id))
       /\ UNCHANGED << rules, alerts, patterns,
                       revenueVars, pricingVars, attributionVars, promiseVars, pureVars >>
  \/ (\/ \E rule \in RuleInputs : createRule(rule)
      \/ \E id \in RuleIdInputs, partial \in RulePartials : updateRule(id, partial)
      \/ \E id \in RuleIdInputs : deleteRule(id))
       /\ UNCHANGED << revenueVars, pricingVars, attributionVars, configVars, promiseVars, pureVars >>
  \/ Tick /\ UNCHANGED << revenueVars, pricingVars, attributionVars, configVars, promiseVars, pureVars >>
InitStores == InitAbuse /\ IdleRevenue /\ IdlePricing /\ IdleStores
SpecStores == InitStores /\ [][NextStores]_vars

\* the store of configurations, calls made without awaiting the earlier ones
NextPromises ==
  \/ (callWrite \/ callGet \/ callDelete \/ continue)
       /\ UNCHANGED << rules, alerts, patterns, revenueVars, pricingVars, attributionVars, pureVars >>
  \/ Tick /\ UNCHANGED << revenueVars, pricingVars, attributionVars, configVars, promiseVars, pureVars >>
InitPromiseCalls == InitAbuse /\ IdleRevenue /\ IdlePricing /\ IdleStores
SpecPromises == InitPromiseCalls /\ [][NextPromises]_vars


\* the three condition evaluators on every condition and context of the model
NextConditions ==
  (conditionMetCall \/ ruleMatchesCall \/ ruleAppliesCall)
    /\ UNCHANGED << abuseVars, revenueVars, pricingVars, attributionVars, configVars,
                    promiseVars, wireVars, validationVars >>
InitConditionCalls ==
  /\ InitAbuse /\ IdleRevenue /\ IdlePricing /\ IdleAttribution /\ InitConfigurations
  /\ InitPromises /\ InitConditions /\ IdleWire /\ IdleValidation
SpecConditions == InitConditionCalls /\ [][NextConditions]_vars

\* toJSON on every configuration of the model
NextWire ==
  (revenueToJSONCall \/ pricingToJSONCall)
    /\ UNCHANGED << abuseVars, revenueVars, pricingVars, attributionVars, configVars,
                    promiseVars, conditionVars, validationVars >>
InitWireCalls ==
  /\ InitAbuse /\ IdleRevenue /\ IdlePricing /\ IdleAttribution /\ InitConfigurations
  /\ InitPromises /\ IdleConditions /\ InitWire /\ IdleValidation
SpecWire == InitWireCalls /\ [][NextWire]_vars

\* validateConfiguration on every configuration of the model, calculateRevenue
\* on one of its rules
NextValidation ==
  \/ validateConfigurationCall
       /\ UNCHANGED << abuseVars, revenueVars, pricingVars, attributionVars, configVars,
                       promiseVars, conditionVars, wireVars >>
  \/ calculateRevenueCall
       /\ UNCHANGED << abuseVars, pricingVars, attributionVars, configVars, promiseVars,
                       pureVars >>
InitValidationCalls ==
  /\ InitAbuse /\ IdlePricing /\ IdleAttribution /\ InitConfigurations /\ InitPromises
  /\ IdleConditions /\ IdleWire /\ InitValidation
SpecValidation == InitValidationCalls /\ [][NextValidation]_vars

\* one service instance per behaviour: AbuseDetectionService with every public
\* operation, or one calculateRevenue call, or one calculatePrice call
NextOperations ==
  \/ (/\ rvPc = "idle"
      /\ prPc = "idle"
      /\ \/ \E rule \in OperationRules : createRule(rule)
         \/ \E id \in OperationRuleIds, partial \in OperationPartials : updateRule(id, partial)
         \/ \E id \in OperationRuleIds : deleteRule(id)
         \/ \E affiliateId \in AffiliateIds, context \in OperationContexts :
              detectAbuse(affiliateId, context)
         \/ \E alertId \in OperationAlertIds : resolveAlert(alertId, "False positive")
         \/ \E tenantId \in OperationTenants : getAbuseAlerts(tenantId)
         \/ \E affiliateId \in AffiliateIds, metrics \in MetricInputs :
              detectAnomalies(affiliateId, metrics)
         \/ \E rule \in OperationRules : validateRule(rule)
         \/ Tick)
       /\ UNCHANGED << revenueVars, pricingVars, attributionVars, configVars, promiseVars,
                       pureVars >>
  \/ calculateRevenueCall
       /\ UNCHANGED << abuseVars, pricingVars, attributionVars, configVars, promiseVars,
                       pureVars >>
  \/ calculatePriceCall
       /\ UNCHANGED << abuseVars, revenueVars, attributionVars, configVars, promiseVars,
                       pureVars >>
  \/ prPc = "call" /\ Tick
       /\ UNCHANGED << revenueVars, pricingVars, attributionVars, configVars, promiseVars,
                       pureVars >>
InitOperations ==
  /\ InitAbuse
  /\ IdleStores
  /\ \/ IdleRevenue /\ IdlePricing
     \/ InitUnconditionalRevenue /\ IdlePricing
     \/ IdleRevenue /\ InitUnconditionalPricing
SpecOperations == InitOperations /\ [][NextOperations]_vars

(***************************************************************************)
(* Properties of AbuseDetectionService                                     *)
(***************************************************************************)
\* the stored rules that are active and whose every condition the context satisfies
MatchingActive(rs, context) ==
  {i \in 1..Len(rs) :
     /\ rs[i].v.isActive
     /\ \A k \in 1..Len(rs[i].v.conditions) :
          abuseConditionMet(rs[i].v.conditions[k], context)}

\* the first n entries of the map m are those of the map old
KeepsEntries(m, old) ==
  /\ Len(m) >= Len(old)
  /\ \A i \in 1..Len(old) : m[i] = old[i]

\* C1: detectAbuse returns an alert iff some stored active rule has all its
\* conditions satisfied by the context; with no match it returns none and the
\* alert store is unchanged; with a match exactly one new alert is stored, with
\* status OPEN, the given affiliateId and the context as evidence.
C1_DetectIffActiveRuleMatches ==
  [][\A a \in AffiliateIds, c \in AbuseContexts :
       detectAbuse(a, c) =>
         LET matched == MatchingActive(rules, c) # {}
         IN  /\ (ret'.result # None) <=> matched
             /\ ~matched => alerts' = alerts
             /\ matched =>
                  /\ Len(alerts') = Len(alerts) + 1
                  /\ KeepsEntries(alerts', alerts)
                  /\ ~MapHas(alerts, ret'.result[1].id)
                  /\ alerts'[Len(alerts')] = [k |-> ret'.result[1].id, v |-> ret'.result[1]]
                  /\ ret'.result[1].status = "OPEN"
                  /\ ret'.result[1].affiliateId = a
                  /\ ret'.result[1].evidence = c]_vars

\* a detectAbuse call stored an alert although a stored active rule with two
\* conditions had only one of them satisfied by the context
C1_Witness ==
  /\ ret.op = "detectAbuse"
  /\ ret.result # None
  /\ MapHas(alerts, ret.result[1].id)
  /\ \E i \in 1..Len(rules) :
       /\ rules[i].v.isActive
       /\ ruleMatches_some(rules[i].v, ret.result[1].evidence)
       /\ i \notin MatchingActive(rules, ret.result[1].evidence)

\* C2: the detectedRules of an alert hold only ids of rules that are stored and
\* active when detectAbuse is called, whatever createRule, updateRule and
\* deleteRule calls came before.
C2_OnlyStoredActiveRulesDetected ==
  [][\A a \in AffiliateIds, c \in AbuseContexts :
       (detectAbuse(a, c) /\ ret'.result # None) =>
         \A id \in SeqToSet(ret'.result[1].detectedRules) :
           MapHas(rules, id) /\ MapGet(rules, id).isActive]_vars

\* an alert was produced while a stored rule that the context satisfies was
\* inactive, and that rule is not among the detected ones
C2_Witness ==
  /\ ret.op = "detectAbuse"
  /\ ret.result # None
  /\ \E i \in 1..Len(rules) :
       /\ ~rules[i].v.isActive
       /\ \A k \in 1..Len(rules[i].v.conditions) :
            abuseConditionMet(rules[i].v.conditions[k], ret.result[1].evidence)
       /\ rules[i].v.id \notin SeqToSet(ret.result[1].detectedRules)

\* the order LOW < MEDIUM < HIGH < CRITICAL
RiskOrder == << "LOW", "MEDIUM", "HIGH", "CRITICAL" >>
RiskRank(level) == CHOOSE n \in 1..4 : RiskOrder[n] = level

\* C3: the alert's riskLevel is the maximum riskLevel of the matching active
\* rules, and detectedRules is exactly the set of their ids.
C3_MaxRiskAndAllMatchingRules ==
  [][\A a \in AffiliateIds, c \in AbuseContexts :
       (detectAbuse(a, c) /\ MatchingActive(rules, c) # {}) =>
         LET M == MatchingActive(rules, c)
             alert == ret'.result[1]
         IN  /\ \E i \in M : rules[i].v.riskLevel = alert.riskLevel
             /\ \A i \in M : RiskRank(rules[i].v.riskLevel) <= RiskRank(alert.riskLevel)
             /\ SeqToSet(alert.detectedRules) = {rules[i].v.id : i \in M}
             /\ Len(alert.detectedRules) = Cardinality(M)]_vars

\* two rules of different risk levels matched one context
C3_Witness ==
  /\ ret.op = "detectAbuse"
  /\ ret.result # None
  /\ Len(ret.result[1].detectedRules) = 2
  /\ ret.result[1].riskLevel = "CRITICAL"
  /\ \E i \in MatchingActive(rules, ret.result[1].evidence) : rules[i].v.riskLevel = "HIGH"

C5_ResolveAlert ==
  [][\A id \in AlertIdInputs :
       resolveAlert(id, "False positive") =>
         IF MapHas(alerts, id)
         THEN MapGet(alerts, id).status = "OPEN" =>
                /\ ret'.ok
                /\ MapKeys(alerts') = MapKeys(alerts)
                /\ MapGet(alerts', id).status = "RESOLVED"
                /\ MapGet(alerts', id).resolvedAt # NoDate
                /\ \A other \in MapKeys(alerts) \ {id} :
                     MapGet(alerts', other) = MapGet(alerts, other)
         ELSE ~ret'.ok /\ alerts' = alerts]_vars

\* an alert was resolved while another stored alert stayed OPEN
C5_Witness ==
  /\ ret.op = "resolveAlert"
  /\ ret.ok
  /\ \E i, j \in 1..Len(alerts) :
       /\ alerts[i].v.status = "RESOLVED"
       /\ alerts[i].v.resolvedAt # NoDate
       /\ alerts[j].v.status = "OPEN"

(***************************************************************************)
(* Properties of calculateRevenue                                          *)
(***************************************************************************)
\* the conditions of the rule are all satisfied against the context; an absent
\* context holds no field
ConditionsSatisfied(rule, context) ==
  \A i \in 1..Len(rule.conditions[1]) :
    conditionMet(rule.conditions[1][i], IF context = None THEN EmptyCtx ELSE context[1])

\* C6: a rule with a non-empty condition list whose conditions are not all
\* satisfied against the context (an absent or empty context included) yields
\* exactly 0 and no error, whatever its model type, capAmount or minAmount.
C6_UnmetConditionsYieldZero ==
  (/\ rvPc = "done"
   /\ rvRule[1].conditions # None
   /\ Len(rvRule[1].conditions[1]) > 0
   /\ ~ConditionsSatisfied(rvRule[1], rvContext))
  => (rvResult.ok /\ rvResult.revenue = D(0))

\* the tiers whose threshold does not exceed the amount
Qualifying(tiers, amount) ==
  {i \in 1..Len(tiers) : DecCmp(tiers[i].threshold, amount) <= 0}

\* the rate of the tier with the highest threshold not exceeding the amount
HighestQualifyingRate(tiers, amount, baseRate) ==
  LET Q == Qualifying(tiers, amount)
  IN  IF Q = {} THEN baseRate
      ELSE tiers[CHOOSE i \in Q :
                   \A j \in Q : DecCmp(tiers[j].threshold, tiers[i].threshold) <= 0].rate

\* the rate of the last tier in list order whose threshold does not exceed the amount
LastQualifyingRate(tiers, amount, baseRate) ==
  LET Q == Qualifying(tiers, amount)
  IN  IF Q = {} THEN baseRate
      ELSE tiers[CHOOSE i \in Q : \A j \in Q : j <= i].rate

StrictlyAscending(tiers) ==
  \A i \in 1..(Len(tiers) - 1) : DecCmp(tiers[i].threshold, tiers[i + 1].threshold) < 0

TiersOf(rule) == IF rule.tierLevels = None THEN << >> ELSE rule.tierLevels[1]

TieredComputed ==
  /\ rvPc = "done"
  /\ rvRule[1].modelType = "TIERED"
  /\ rvResult.raw # None

\* C7 as stated: a TIERED rule applies the rate of the tier with the highest
\* threshold not exceeding the amount, whatever the order of the tier list.
C7_HighestThresholdAnyOrder ==
  TieredComputed =>
    rvResult.raw[1] =
      dividedBy100(times(rvAmount, HighestQualifyingRate(TiersOf(rvRule[1]), rvAmount,
                                                          rvRule[1].baseRate)))

\* C7 amended: a TIERED rule applies the rate of the last tier in list order
\* whose threshold does not exceed the amount, baseRate when there is none;
\* for a strictly ascending tier list that tier is the one with the highest
\* qualifying threshold; the result is amount x rate / 100.
C7_LastQualifyingTier ==
  TieredComputed =>
    LET tiers == TiersOf(rvRule[1])
        rate == LastQualifyingRate(tiers, rvAmount, rvRule[1].baseRate)
    IN  /\ rvResult.raw[1] = dividedBy100(times(rvAmount, rate))
        /\ StrictlyAscending(tiers) =>
             rate = HighestQualifyingRate(tiers, rvAmount, rvRule[1].baseRate)

\* a TIERED rule with three ascending tiers was applied to an amount that two
\* of them qualify for
C7_Witness ==
  /\ TieredComputed
  /\ Len(TiersOf(rvRule[1])) = 3
  /\ StrictlyAscending(TiersOf(rvRule[1]))
  /\ Cardinality(Qualifying(TiersOf(rvRule[1]), rvAmount)) = 2
  /\ rvResult.raw[1] = dividedBy100(times(rvAmount, TiersOf(rvRule[1])[2].rate))

\* C8: the returned amount is the raw revenue with the cap applied first and
\* the floor second; it is never below minAmount when that is set, and never
\* above capAmount when that is set and minAmount is unset or at most capAmount.
C8_CapThenFloor ==
  (rvPc = "done" /\ rvResult.raw # None) =>
    LET rule == rvRule[1]
        r == rvResult.raw[1]
        hasCap == rule.capAmount # None
        hasMin == rule.minAmount # None
        capped == IF hasCap /\ DecCmp(r, rule.capAmount[1]) > 0 THEN rule.capAmount[1] ELSE r
        floored == IF hasMin /\ DecCmp(capped, rule.minAmount[1]) < 0
                   THEN rule.minAmount[1] ELSE capped
    IN  /\ rvResult.revenue = floored
        /\ hasMin => DecCmp(rvResult.revenue, rule.minAmount[1]) >= 0
        /\ (hasCap /\ (~hasMin \/ DecCmp(rule.minAmount[1], rule.capAmount[1]) <= 0))
             => DecCmp(rvResult.revenue, rule.capAmount[1]) <= 0

\* a raw revenue above the cap was returned as the floor, the floor being
\* above the cap
C8_Witness ==
  /\ rvPc = "done"
  /\ rvResult.raw # None
  /\ rvRule[1].capAmount # None
  /\ rvRule[1].minAmount # None
  /\ DecCmp(rvRule[1].minAmount[1], rvRule[1].capAmount[1]) > 0
  /\ DecCmp(rvResult.raw[1], rvRule[1].capAmount[1]) > 0
  /\ rvResult.revenue = rvRule[1].minAmount[1]

PercentageApplied ==
  /\ rvPc = "done"
  /\ rvRule[1].modelType = "PERCENTAGE"
  /\ rvRule[1].capAmount = None
  /\ rvRule[1].minAmount = None
  /\ rvResult.raw # None

SomeOverrideActive(config, context, date) ==
  /\ config.overrides # None
  /\ \E i \in 1..Len(config.overrides[1]) :
       LET o == config.overrides[1][i]
       IN  /\ StrictEq(o.productId, Lookup(context, "productId"))
           /\ o.validFrom <= date
           /\ (o.validTo = None \/ date <= o.validTo[1])

\* the rules of the list whose conditions the context satisfies
Applicable(rs, context) ==
  {i \in 1..Len(rs) :
     \A k \in 1..Len(rs[i].conditions) : pricingConditionMet(rs[i].conditions[k], context)}

\* the position of rule i among the applicable rules M, by ascending priority,
\* rules of equal priority in the order of the list
PriorityRank(rs, M, i) ==
  1 + Cardinality({j \in M : \/ rs[j].priority < rs[i].priority
                             \/ (rs[j].priority = rs[i].priority /\ j < i)})

\* the left fold of the adjustments of the applicable rules, from rank k on
RECURSIVE FoldAdjustments(_, _, _, _)
FoldAdjustments(rs, M, k, price) ==
  IF k > Cardinality(M) THEN price
  ELSE LET rule == rs[CHOOSE i \in M : PriorityRank(rs, M, i) = k]
       IN  FoldAdjustments(rs, M, k + 1,
             IF rule.adjustmentType = "ABSOLUTE" THEN plus(price, rule.priceAdjustment)
             ELSE times(price, plus(D(1), dividedBy100(rule.priceAdjustment))))

\* C10: with no override active, calculatePrice is the left fold from basePrice
\* over the rules the context satisfies, in ascending priority order whatever
\* their order in config.rules, each applied to the already adjusted price;
\* it is basePrice when no rule matches.
C10_PriceIsFoldByPriority ==
  (prPc = "done" /\ ~SomeOverrideActive(prConfig[1], prContext, now)) =>
    LET rs == prConfig[1].rules
        M == Applicable(rs, prContext)
    IN  /\ prResult = FoldAdjustments(rs, M, 1, prConfig[1].basePrice)
        /\ M = {} => prResult = prConfig[1].basePrice

\* three rules applied, the list giving them in descending priority order and
\* holding a percentage rule after an absolute one
C10_Witness ==
  /\ prPc = "done"
  /\ ~SomeOverrideActive(prConfig[1], prContext, now)
  /\ Cardinality(Applicable(prConfig[1].rules, prContext)) = 3
  /\ prConfig[1].rules[1].priority > prConfig[1].rules[3].priority
  /\ prConfig[1].rules[1].adjustmentType = "ABSOLUTE"
  /\ prResult # prConfig[1].basePrice

\* the prices of the overrides of the configuration that are for the product
\* of the context and whose validity window holds the time
ActiveOverridePrices(config, context, date) ==
  IF config.overrides = None THEN {}
  ELSE {config.overrides[1][i].price : i \in
          {k \in 1..Len(config.overrides[1]) :
             LET o == config.overrides[1][k]
             IN  /\ StrictEq(o.productId, Lookup(context, "productId"))
                 /\ o.validFrom <= date
                 /\ (o.validTo = None \/ date <= o.validTo[1])}}

\* C11: in calculatePrice and in calculateDynamicPrice alike, when an override
\* of the configuration is for the product of the context and its validity
\* window holds the current time, the price is the price of that override and
\* no rule adjustment is applied, however many rules match.
C11_ActiveOverrideIsThePrice ==
  /\ (prPc = "done" /\ ActiveOverridePrices(prConfig[1], prContext, now) # {}) =>
       prResult \in ActiveOverridePrices(prConfig[1], prContext, now)
  /\ (prDynamic # None
        /\ ActiveOverridePrices(prConfig[1], prContext, prDynamic[1].calculatedAt) # {}) =>
       /\ prDynamic[1].finalPrice
            \in ActiveOverridePrices(prConfig[1], prContext, prDynamic[1].calculatedAt)
       /\ prDynamic[1].adjustments = << >>

(***************************************************************************)
(* Properties of AttributionService                                        *)
(***************************************************************************)
\* the event the single trackAttribution call of the model stored
StoredEvent == events[1].v

Tracked == atPc = "done" /\ Len(events) = 1

\* the sum of the weights, not rounded
RECURSIVE ExactSum(_, _)
ExactSum(touchpoints, i) ==
  IF i > Len(touchpoints) THEN D(0)
  ELSE ExactPlus(touchpoints[i].weight, ExactSum(touchpoints, i + 1))

\* C12: for each of the six attribution models, after trackAttribution of an
\* event with N >= 1 touchpoints the weights of the stored touchpoints sum to 1
\* and attributionWeight is that sum; with N = 0 the stored list is empty and
\* attributionWeight is 0.
C12_WeightsSumToOne ==
  Tracked =>
    LET tps == StoredEvent.touchpoints
    IN  /\ Len(tps) = Len(atEvent[1].touchpoints)
        /\ Len(tps) >= 1 => /\ ExactSum(tps, 1) = D(1)
                            /\ StoredEvent.attributionWeight = ExactSum(tps, 1)
        /\ Len(tps) = 0 => StoredEvent.attributionWeight = D(0)

\* C13: under REFERRAL the first and the last touchpoint get 0.5 each and the
\* touchpoints between them 0 when N >= 2; the only touchpoint gets 1 when N = 1.
C13_ReferralSplit ==
  (Tracked /\ StoredEvent.attributionType = "REFERRAL") =>
    LET tps == StoredEvent.touchpoints
        N == Len(tps)
    IN  /\ N >= 2 => \A i \in 1..N :
                       tps[i].weight = IF i = 1 \/ i = N THEN DE(5, -1) ELSE D(0)
        /\ N = 1 => tps[1].weight = D(1)

\* one unit of the PRECISION-th significant digit of w
UnitInLastPlace(w) == DE(1, w.e + Len(w.c) - PRECISION)

\* w is num / den rounded to PRECISION significant digits: it has no more
\* digits than that and lies within half a unit of the last one of num / den
IsQuotientRounded(w, num, den) ==
  /\ SigDigits(w) <= PRECISION
  /\ DecCmp(ExactTimes(D(2), DecAbs(ExactMinus(ExactTimes(w, D(den)), D(num)))),
            ExactTimes(D(den), UnitInLastPlace(w))) <= 0

\* the weights of the stored touchpoints, by position
StoredWeights == [i \in 1..Len(StoredEvent.touchpoints) |-> StoredEvent.touchpoints[i].weight]

\* what the models that give all the credit to one touchpoint store
SingleCreditWeights ==
  LET N == Len(StoredWeights)
      type == StoredEvent.attributionType
  IN  /\ type \in {"DIRECT", "LAST_CLICK"} =>
           \A i \in 1..N : StoredWeights[i] = IF i = N THEN D(1) ELSE D(0)
      /\ type = "FIRST_CLICK" =>
           \A i \in 1..N : StoredWeights[i] = IF i = 1 THEN D(1) ELSE D(0)

Concerns(event, affiliateId) ==
  \/ event.affiliateId = affiliateId
  \/ \E i \in 1..Len(event.affiliateChain) : event.affiliateChain[i] = affiliateId

StoredEvents(es) == {es[i].v : i \in 1..Len(es)}

\* the list holds exactly the stored events that concern the affiliate, each
\* once, none created later than one before it in the list
IsHistoryOf(list, es, affiliateId) ==
  /\ SeqToSet(list) = {e \in StoredEvents(es) : Concerns(e, affiliateId)}
  /\ Len(list) = Cardinality(SeqToSet(list))
  /\ \A i, j \in 1..Len(list) : i < j => list[i].createdAt >= list[j].createdAt

\* getAttributionHistory returns the stored events that concern the
\* affiliate, newest first, and changes nothing
HistoryReturned ==
  \A affiliateId \in HistoryAffiliates :
    getAttributionHistory(affiliateId) =>
      /\ IsHistoryOf(ret'.result, events, affiliateId)
      /\ events' = events

OwnedBy(cs, tenantId) ==
  LET owned == {i \in 1..Len(cs) : cs[i].v.tenantId = tenantId}
  IN  [n \in 1..Cardinality(owned) |->
         cs[CHOOSE i \in owned : Cardinality({j \in owned : j <= i}) = n].v]

\* no tenant other than the owner sees its list of configurations change
OthersUntouched(owner) ==
  \A tenantId \in ConfigTenants \ {owner} :
    OwnedBy(configurations', tenantId) = OwnedBy(configurations, tenantId)

\* C17: listConfigurations(T) returns exactly the stored configurations whose
\* tenantId is T, and a call that creates, updates or deletes a configuration
\* of a tenant leaves the list of every other tenant as it was.
C17_TenantIsolation ==
  [][/\ \A tenantId \in ConfigTenants :
          listConfigurations(tenantId) => ret'.result = OwnedBy(configurations, tenantId)
     /\ \A config \in ConfigInputs :
          createConfiguration(config) => OthersUntouched(config.tenantId)
     /\ \A id \in ConfigIdInputs, partial \in ConfigPartials :
          (updateConfiguration(id, partial) /\ MapHas(configurations, id)) =>
            OthersUntouched(MapGet(configurations, id).tenantId)
     /\ \A id \in ConfigIdInputs :
          (deleteConfiguration(id) /\ MapHas(configurations, id)) =>
            OthersUntouched(MapGet(configurations, id).tenantId)]_vars

\* C18: getConfiguration, updateConfiguration and deleteConfiguration fail
\* exactly on an id that is not in the store, updateRule and deleteRule
\* exactly on an unknown rule id, and a failed call changes no store; after a
\* successful deleteConfiguration(id) the id is not in the store, and only
\* createConfiguration puts an id into it.
C18_NotFound ==
  [][/\ \A id \in ConfigIdInputs :
          getConfiguration(id) =>
            /\ ret'.ok <=> MapHas(configurations, id)
            /\ UNCHANGED << configurations, sharingRules >>
     /\ \A id \in ConfigIdInputs, partial \in ConfigPartials :
          updateConfiguration(id, partial) =>
            /\ ret'.ok <=> MapHas(configurations, id)
            /\ ~ret'.ok => UNCHANGED << configurations, sharingRules >>
     /\ \A id \in ConfigIdInputs :
          deleteConfiguration(id) =>
            /\ ret'.ok <=> MapHas(configurations, id)
            /\ ~ret'.ok => UNCHANGED << configurations, sharingRules >>
            /\ ~MapHas(configurations', id)
     /\ \A id \in RuleIdInputs, partial \in RulePartials :
          updateRule(id, partial) =>
            /\ ret'.ok <=> MapHas(rules, id)
            /\ ~ret'.ok => UNCHANGED << rules, alerts >>
     /\ \A id \in RuleIdInputs :
          deleteRule(id) =>
            /\ ret'.ok <=> MapHas(rules, id)
            /\ ~ret'.ok => UNCHANGED << rules, alerts >>
            /\ ~MapHas(rules', id)
     /\ (MapKeys(configurations') \ MapKeys(configurations) # {}) =>
          ret'.op = "createConfiguration"]_vars

\* a get, update or delete of a configuration failed on a store that holds
\* a configuration and its rules
C18_Witness ==
  /\ ret.op \in {"getConfiguration", "updateConfiguration", "deleteConfiguration"}
  /\ ~ret.ok
  /\ MapKeys(configurations) = {"config-001"}
  /\ MapKeys(sharingRules) # {}

\* the entries of a store other than the one of the key are as they were
OthersKept(m, old, key) ==
  /\ MapKeys(m) = MapKeys(old)
  /\ \A k \in MapKeys(old) \ {key} : MapGet(m, k) = MapGet(old, k)

\* the fields outside exempt are those of partial where it names them and
\* those of old elsewhere
MergedOver(new, old, partial, exempt) ==
  /\ DOMAIN new = DOMAIN old
  /\ \A f \in DOMAIN old \ exempt :
       new[f] = IF f \in DOMAIN partial THEN partial[f] ELSE old[f]

\* C19 as stated: updateConfiguration(id, partial) and updateRule(id, partial)
\* store the entity with the fields of partial merged over it, id and
\* createdAt keeping their old values whatever partial says, the fields
\* partial does not name unchanged, and no other stored entity changed.
C19_PartialMergeKeepsOtherFields ==
  [][/\ \A id \in ConfigIdInputs, partial \in ConfigPartials :
          (updateConfiguration(id, partial) /\ MapHas(configurations, id)) =>
            LET old == MapGet(configurations, id)
                new == MapGet(configurations', id)
            IN  /\ new.id = old.id /\ new.createdAt = old.createdAt
                /\ MergedOver(new, old, partial, {"id", "createdAt"})
                /\ OthersKept(configurations', configurations, id)
                /\ sharingRules' = sharingRules
     /\ \A id \in RuleIdInputs, partial \in RulePartials :
          (updateRule(id, partial) /\ MapHas(rules, id)) =>
            LET old == MapGet(rules, id)
                new == MapGet(rules', id)
            IN  /\ new.id = old.id /\ new.createdAt = old.createdAt
                /\ MergedOver(new, old, partial, {"id", "createdAt"})
                /\ OthersKept(rules', rules, id)
                /\ alerts' = alerts]_vars

\* C19 amended: as above, except that updatedAt is set to the time of the
\* update, whether partial names it or not.
C19_PartialMergeStampsUpdatedAt ==
  [][/\ \A id \in ConfigIdInputs, partial \in ConfigPartials :
          (updateConfiguration(id, partial) /\ MapHas(configurations, id)) =>
            LET old == MapGet(configurations, id)
                new == MapGet(configurations', id)
            IN  /\ new.id = old.id /\ new.createdAt = old.createdAt
                /\ new.updatedAt = now
                /\ MergedOver(new, old, partial, {"id", "createdAt", "updatedAt"})
                /\ OthersKept(configurations', configurations, id)
                /\ sharingRules' = sharingRules
     /\ \A id \in RuleIdInputs, partial \in RulePartials :
          (updateRule(id, partial) /\ MapHas(rules, id)) =>
            LET old == MapGet(rules, id)
                new == MapGet(rules', id)
            IN  /\ new.id = old.id /\ new.createdAt = old.createdAt
                /\ new.updatedAt = now
                /\ MergedOver(new, old, partial, {"id", "createdAt", "updatedAt"})
                /\ OthersKept(rules', rules, id)
                /\ alerts' = alerts]_vars

\* a configuration created without an id for tenant-002 at time 0, updated at
\* time 1 with a partial that names another id, createdAt, updatedAt and tenant
C19_Witness ==
  /\ ret.op = "updateConfiguration"
  /\ ret.ok
  /\ ret.result[1].id = uuidv4(1)
  /\ ret.result[1].tenantId = "tenant-001"
  /\ ret.result[1].createdAt = 0
  /\ ret.result[1].updatedAt = 1
  /\ MapGet(configurations, uuidv4(1)) = ret.result[1]

(***************************************************************************)
(* Properties of calls that are not awaited                                *)
(***************************************************************************)
\* C20: however create, update, get and delete calls on the store are
\* interleaved with the continuations of earlier calls, the calls on one id
\* take effect one at a time in the order they are made: the store holds for
\* each id the whole value the last create or update of it returned (nothing
\* after a delete), getConfiguration(id) returns that value or fails when
\* there is none, and update and delete fail exactly when there is none.
C20_Linearizable ==
  /\ [](\A id \in ConfigIdSpace :
          IF written[id] = None THEN ~MapHas(configurations, id)
          ELSE MapHas(configurations, id) /\ MapGet(configurations, id) = written[id][1])
  /\ [][/\ \A id \in ConfigIdInputs :
             getConfiguration(id) =>
               /\ ret'.ok <=> written[id] # None
               /\ ret'.result = written[id]
        /\ \A id \in ConfigIdInputs, partial \in ConfigPartials :
             updateConfiguration(id, partial) =>
               /\ ret'.ok <=> written[id] # None
               /\ ret'.ok => /\ ret'.result[1].id = id
                             /\ MergedOver(ret'.result[1], written[id][1], partial,
                                           {"id", "createdAt", "updatedAt"})
        /\ \A id \in ConfigIdInputs :
             deleteConfiguration(id) => (ret'.ok <=> written[id] # None)]_vars

\* create, update and get called one after the other, no continuation run
\* yet: the get returns what the update wrote
C20_Witness ==
  /\ Len(pending) >= 3
  /\ pending[Len(pending)] = ret
  /\ ret.op = "getConfiguration"
  /\ ret.ok
  /\ ret.result[1].name = "Updated Name"
  /\ pending[Len(pending) - 1].op = "updateConfiguration"
  /\ pending[Len(pending) - 1].result = ret.result

(***************************************************************************)
(* Properties of the condition evaluators                                  *)
(***************************************************************************)
\* what a condition on a key the context lacks is required to evaluate to
MissingKeyVerdict(condition) ==
  condition.operator = "ne" /\ condition.value # Undef

\* C21: in each of the three condition evaluators a condition whose field or
\* metric is absent from the context evaluates to false for eq, gt, gte, lt,
\* lte, in, contains and every comparison value, to true only for ne against
\* a defined value, and to false for an operator outside the eight
C21_MissingKeySatisfiesOnlyNe ==
  (cdCondition # None /\ Lookup(cdContext, cdCondition[1].field) = Undef) =>
    \A evaluator \in DOMAIN cdResult :
      cdResult[evaluator] # None =>
        cdResult[evaluator][1] = MissingKeyVerdict(cdCondition[1])

(***************************************************************************)
(* Properties of toJSON                                                    *)
(***************************************************************************)
\* new Decimal(chars) of a numeral: an optional sign, digits with an optional
\* point, an optional exponent
DecimalOfString(chars) ==
  LET neg == Head(chars) = "-"
      body == IF neg THEN Tail(chars) ELSE chars
      ePos == IF \E i \in 1..Len(body) : body[i] = "e"
              THEN CHOOSE i \in 1..Len(body) : body[i] = "e" ELSE Len(body) + 1
      mant == SubSeq(body, 1, ePos - 1)
      expChars == SubSeq(body, ePos + 1, Len(body))
      exp == IF expChars = << >> THEN 0
             ELSE IF Head(expChars) = "-" THEN -CharsToNat(Tail(expChars), 0)
             ELSE CharsToNat(Tail(expChars), 0)
      dot == IF \E i \in 1..Len(mant) : mant[i] = "."
             THEN CHOOSE i \in 1..Len(mant) : mant[i] = "." ELSE 0
      digits == SelectSeq(mant, LAMBDA ch : ch # ".")
      fraction == IF dot = 0 THEN 0 ELSE Len(mant) - dot
  IN  DecNorm(neg, [i \in 1..Len(digits) |-> DigitOf(digits[Len(digits) + 1 - i])],
              exp - fraction)

\* the fields of a rule and of a configuration that the wire form is to retain
RevenueRuleFields ==
  {"modelType", "baseRate", "tierLevels", "bonusRates", "capAmount", "minAmount", "conditions"}
PricingRuleFields == {"conditions", "priceAdjustment", "adjustmentType", "priority"}
DecimalFields == {"baseRate", "priceAdjustment"}

\* the fields a rule or configuration may lack
OptionalFields ==
  {"tierLevels", "bonusRates", "capAmount", "minAmount", "overrides"}

\* the field of the original can be read back from the wire form
Retained(wire, original, field, optional) ==
  \/ optional /\ original[field] = None
  \/ /\ field \in DOMAIN wire
     /\ IF field \in DecimalFields THEN DecimalOfString(wire[field]) = original[field]
        ELSE wire[field] = original[field]

\* in a revenue rule the condition list is optional, in a pricing rule it is not
RulesRetained(wire, config, fields, optionalConditions) ==
  /\ Len(wire.rules) = Len(config.rules)
  /\ \A i \in 1..Len(config.rules) :
       \A field \in fields :
         Retained(wire.rules[i], config.rules[i], field,
                  field \in OptionalFields \/ (optionalConditions /\ field = "conditions"))

Serialized == tjConfig # None /\ tjWire # None

\* C22: the wire form toJSON produces for a revenue-sharing or pricing
\* configuration retains every rule with all of its fields (and, for pricing,
\* the overrides), every decimal exactly, so that it can be read back into a
\* configuration equal to the original
C22_WireFormRetainsEveryRuleField ==
  Serialized =>
    LET config == tjConfig[1].config
    IN  IF tjConfig[1].service = "RevenueSharingService"
        THEN RulesRetained(tjWire[1], config, RevenueRuleFields, TRUE)
        ELSE /\ RulesRetained(tjWire[1], config, PricingRuleFields, FALSE)
             /\ Retained(tjWire[1], config, "overrides", TRUE)
             /\ DecimalOfString(tjWire[1].basePrice) = config.basePrice

(***************************************************************************)
(* Properties of validation                                                *)
(***************************************************************************)
UnknownModelType(rule) == rule.modelType \notin ModelTypes

\* C23: a revenue rule whose modelType is none of the five supported ones is
\* never tolerated: validateConfiguration reports a configuration holding
\* such a rule as invalid, with a violation message, and calculateRevenue
\* does not return an amount for such a rule
C23_UnknownModelTypeRejected ==
  /\ (vcResult # None /\ \E i \in 1..Len(vcConfig[1].rules) :
                           UnknownModelType(vcConfig[1].rules[i]))
       => (~vcResult[1].valid /\ Len(vcResult[1].errors) > 0)
  /\ (rvPc = "done" /\ UnknownModelType(rvRule[1])) => ~rvResult.ok

(***************************************************************************)
(* Properties of the PERFORMANCE_BASED and HYBRID models                   *)
(***************************************************************************)
PerformanceComputed ==
  /\ rvPc = "done"
  /\ rvRule[1].modelType = "PERFORMANCE_BASED"
  /\ rvResult.raw # None

\* the context carries a numeric performanceScore, 0 included
CarriesScore(context) == performanceScoreOf(context).t = "num"

\* baseRate x score / 100 when the context carries a score, baseRate otherwise
ScaledRate(rule, context) ==
  IF CarriesScore(context)
  THEN dividedBy100(times(rule.baseRate, D(performanceScoreOf(context).n)))
  ELSE rule.baseRate

\* C24: for a PERFORMANCE_BASED rule the rate is baseRate x s / 100 whenever
\* the context carries a performanceScore s, 0 included, and baseRate
\* otherwise; with bonusRates present it is replaced by the rate of the last
\* bonus in list order whose threshold does not exceed the amount; the raw
\* revenue is amount x finalRate / 100
C24_PerformanceRateScaledByAnyScore ==
  PerformanceComputed =>
    LET rule == rvRule[1]
        scaled == ScaledRate(rule, rvContext)
        finalRate == IF rule.bonusRates = None THEN scaled
                     ELSE LastQualifyingRate(rule.bonusRates[1], rvAmount, scaled)
    IN  rvResult.raw[1] = dividedBy100(times(rvAmount, finalRate))

HybridComputed ==
  /\ rvPc = "done"
  /\ rvRule[1].modelType = "HYBRID"
  /\ rvResult.raw # None

\* amount x rate / 100 of the last tier in list order whose threshold does not
\* exceed the amount, amount x baseRate / 100 when no tier qualifies
TierOrBaseRevenue(rule, amount) ==
  dividedBy100(times(amount, LastQualifyingRate(TiersOf(rule), amount, rule.baseRate)))

C26_AlertListsOnlyRulesOfItsTenant ==
  [][\A affiliateId \in AffiliateIds, context \in AbuseContexts :
       (detectAbuse(affiliateId, context) /\ ret'.result # None) =>
         LET alert == ret'.result[1]
         IN  /\ alert.tenantId = Lookup(context, "tenantId")
             /\ \A i \in 1..Len(alert.detectedRules) :
                  /\ MapHas(rules, alert.detectedRules[i])
                  /\ MapGet(rules, alert.detectedRules[i]).tenantId = alert.tenantId]_vars

\* the stored active rules that have no condition
UnconditionalActive(rs) ==
  {rs[i].v.id : i \in {j \in 1..Len(rs) : rs[j].v.isActive /\ Len(rs[j].v.conditions) = 0}}

\* the rules of a pricing list that have no condition, and those whose
\* non-empty condition list the context satisfies
WithoutConditions(rs) == {i \in 1..Len(rs) : Len(rs[i].conditions) = 0}
WithConditionsMet(rs, context) ==
  {i \in 1..Len(rs) : Len(rs[i].conditions) > 0 /\ ruleApplies(rs[i], context)}

\* createRule stores an active rule without conditions although validateRule
\* rejects it, and every detectAbuse lists the stored active rules without
\* conditions, whatever the context
AbuseRuleWithoutConditions ==
  /\ \A rule \in OperationRules :
       (createRule(rule) /\ Len(rule.conditions) = 0) =>
         /\ MapHas(rules', rule.id)
         /\ MapGet(rules', rule.id).conditions = << >>
         /\ MapGet(rules', rule.id).isActive = rule.isActive
         /\ ret'.ok
         /\ ~validateRuleResult(rule).valid
  /\ \A rule \in OperationRules :
       (validateRule(rule) /\ Len(rule.conditions) = 0) =>
         /\ ~ret'.result[1].valid
         /\ \E i \in 1..Len(ret'.result[1].errors) :
              ret'.result[1].errors[i] = "At least one condition is required"
  /\ \A affiliateId \in AffiliateIds, context \in OperationContexts :
       (detectAbuse(affiliateId, context) /\ UnconditionalActive(rules) # {}) =>
         /\ ret'.result # None
         /\ UnconditionalActive(rules) \subseteq SeqToSet(ret'.result[1].detectedRules)
         /\ MapHas(alerts', ret'.result[1].id)

\* calculateRevenue never returns the early 0 for a rule whose condition list
\* is empty or absent
RevenueRuleWithoutConditions ==
  (calculateRevenueCall /\ (rvRule[1].conditions = None \/ rvRule[1].conditions = Some(<< >>))) =>
    /\ rvResult'.ok
    /\ rvResult'.raw = rawRevenue(rvRule[1], rvAmount, rvContext)
    /\ rvResult'.raw # None

\* the price is the fold over the rules without conditions and the rules whose
\* conditions the context satisfies
PricingRuleWithoutConditionsApplied ==
  LET rs == prConfig[1].rules
      M == WithoutConditions(rs) \cup WithConditionsMet(rs, prContext)
  IN  prResult' = FoldAdjustments(rs, M, 1, prConfig[1].basePrice)

\* C27 as stated: a rule with an empty condition list is unconditional and
\* creation does not validate: createRule stores an active abuse rule without
\* conditions although validateRule rejects it, and detectAbuse then produces
\* an alert listing it for every context; a pricing rule without conditions
\* is applied by calculatePrice for every context and a revenue rule with an
\* empty or absent condition list is applied for every context
C27_EmptyConditionListAppliedForEveryContext ==
  [][/\ AbuseRuleWithoutConditions
     /\ RevenueRuleWithoutConditions
     /\ calculatePriceCall => PricingRuleWithoutConditionsApplied]_vars

\* C27 amended: as stated for the abuse rule while it is stored and active
\* and for the revenue rule; a pricing rule without conditions is applied by
\* calculatePrice for every context for which no override is active, an
\* active override replacing every rule
C27_EmptyConditionListIsUnconditional ==
  [][/\ AbuseRuleWithoutConditions
     /\ RevenueRuleWithoutConditions
     /\ (calculatePriceCall /\ ~SomeOverrideActive(prConfig[1], prContext, now)) =>
          PricingRuleWithoutConditionsApplied
     /\ (calculatePriceCall /\ SomeOverrideActive(prConfig[1], prContext, now)) =>
          prResult' \in ActiveOverridePrices(prConfig[1], prContext, now)]_vars

\* the rule without conditions was created and, for the empty context,
\* detectAbuse stored an alert that lists it
C27_Witness ==
  /\ ret.op = "detectAbuse"
  /\ ret.result # None
  /\ ret.result[1].evidence = EmptyCtx
  /\ "u1" \in SeqToSet(ret.result[1].detectedRules)
  /\ MapHas(rules, "u1")
  /\ MapGet(rules, "u1").conditions = << >>
  /\ MapHas(alerts, ret.result[1].id)

\* C28: detectAnomalies produces a pattern entry only for metrics that have
\* at least one historical sample; no public operation ever records one, so
\* after any sequence of public operations detectAnomalies returns an empty
\* list for every affiliate and metrics map, flags nothing, does not fail
\* and leaves rules and alerts unchanged
C28_DetectAnomaliesFindsNothing ==
  [][/\ patterns' = << >>
     /\ \A affiliateId \in AffiliateIds, metrics \in MetricInputs :
          detectAnomalies(affiliateId, metrics) =>
            /\ ret'.ok
            /\ \A i \in 1..Len(ret'.result[1]) :
                 Len(historyOf(patterns, affiliateId, ret'.result[1][i].metric)) > 0
            /\ ret'.result = Some(<< >>)
            /\ UNCHANGED << rules, alerts >>]_vars

\* detectAnomalies returned while a rule and an alert were stored
C28_Witness ==
  /\ ret.op = "detectAnomalies"
  /\ ret.ok
  /\ ret.result = Some(<< >>)
  /\ Len(rules) > 0
  /\ Len(alerts) > 0

\* every stored alert is OPEN or RESOLVED and has resolvedAt exactly when RESOLVED
AlertsWellFormed ==
  \A i \in 1..Len(alerts) :
    /\ alerts[i].v.status \in {"OPEN", "RESOLVED"}
    /\ (alerts[i].v.resolvedAt # NoDate) <=> (alerts[i].v.status = "RESOLVED")

\* C29: in every reachable state each stored alert is OPEN or RESOLVED with
\* resolvedAt set if and only if it is RESOLVED; an alert that is RESOLVED
\* never returns to OPEN; no operation, updateRule and deleteRule of the
\* rules in its detectedRules included, removes an alert or changes its
\* riskLevel, action, abuseType or detectedRules
C29_AlertLifecycle ==
  [][/\ AlertsWellFormed'
     /\ \A i \in 1..Len(alerts) :
          LET old == alerts[i].v
          IN  /\ MapHas(alerts', alerts[i].k)
              /\ LET new == MapGet(alerts', alerts[i].k)
                 IN  /\ new.riskLevel = old.riskLevel
                     /\ new.action = old.action
                     /\ new.abuseType = old.abuseType
                     /\ new.detectedRules = old.detectedRules
                     /\ old.status = "RESOLVED" => new.status = "RESOLVED"]_vars

\* an alert was resolved and then a rule it lists was deleted
C29_Witness ==
  /\ ret.op = "deleteRule"
  /\ ret.ok
  /\ \E i \in 1..Len(alerts) :
       /\ alerts[i].v.status = "RESOLVED"
       /\ alerts[i].v.resolvedAt # NoDate
       /\ \E k \in 1..Len(alerts[i].v.detectedRules) :
            ~MapHas(rules, alerts[i].v.detectedRules[k])

(***************************************************************************)
(* Further properties of PricingService                                    *)
(***************************************************************************)
\* the adjustments of the applicable rules M in ascending priority order,
\* rules of equal priority in the order of the list
AdjustmentsByPriority(rs, M) ==
  [k \in 1..Cardinality(M) |->
     LET rule == rs[CHOOSE i \in M : PriorityRank(rs, M, i) = k]
     IN  [rule |-> rule.name, adjustment |-> rule.priceAdjustment,
          adjustmentType |-> rule.adjustmentType]]

\* C30: when no override is active for the context, calculateDynamicPrice
\* returns the finalPrice that calculatePrice returns, basePrice equal to
\* config.basePrice and as adjustments exactly the rules whose conditions the
\* context satisfies, in ascending priority order (equal priorities in list
\* order); calculatePrice leaves the service state unchanged, while
\* calculateDynamicPrice adds exactly one adjustment record and changes no
\* configuration
C30_DynamicPriceAgreesWithCalculatePrice ==
  [][/\ calculatePriceCall =>
          /\ UNCHANGED << adjustments, prConfig, uuidCount >>
          /\ (prDynamic # None /\ ~SomeOverrideActive(prConfig[1], prContext, now)) =>
               prDynamic[1].finalPrice = prResult'
     /\ calculateDynamicPriceCall =>
          LET config == prConfig[1]
              result == prDynamic'[1]
          IN  /\ prDynamic' # None
              /\ result.basePrice = config.basePrice
              /\ result.adjustments =
                   AdjustmentsByPriority(config.rules, Applicable(config.rules, prContext))
              /\ (prPc = "done" /\ ~SomeOverrideActive(config, prContext, now)) =>
                   result.finalPrice = prResult
              /\ ~SomeOverrideActive(config, prContext, now) =>
                   result.finalPrice = calculatePrice(config, prContext, now)
              /\ Len(adjustments') = Len(adjustments) + 1
              /\ MapHas(adjustments', result.id) /\ ~MapHas(adjustments, result.id)
              /\ MapGet(adjustments', result.id) = result
              /\ \A i \in 1..Len(adjustments) : adjustments'[i] = adjustments[i]
              /\ UNCHANGED << prConfig, prResult >>]_vars

\* both operations ran on a configuration of three rules of which two apply,
\* given in descending priority order, and returned the same price
C30_Witness ==
  /\ prPc = "done"
  /\ prDynamic # None
  /\ ~SomeOverrideActive(prConfig[1], prContext, now)
  /\ Len(prConfig[1].rules) = 3
  /\ Len(prDynamic[1].adjustments) = 2
  /\ \E i, j \in 1..3 : i < j /\ prConfig[1].rules[i].priority > prConfig[1].rules[j].priority
  /\ prDynamic[1].finalPrice = prResult
  /\ prResult # prConfig[1].basePrice
  /\ Len(adjustments) = 1

====
